---- MODULE Spec2Model ----
(***************************************************************************)
(* Order validation and multi-order execution engine of the trading bot:   *)
(* OrderValidator, MarketOrderExecutor / LimitOrderExecutor (primitive     *)
(* orders), OCOOrderExecutor and TWAPExecutor.                             *)
(*                                                                         *)
(* Numbers.  Python floats are modelled as exact decimal fixed-point       *)
(* integers: a quantity q stands for q / QtyScale coins and a price p for  *)
(* p / PriceScale USDT, both one decimal digit finer than the configured   *)
(* precision, so that format_quantity / format_price really round.         *)
(* round(x, n) is round-half-to-even on the exact value.                   *)
(*                                                                         *)
(* The exchange client (python-binance) is an external collaborator: each  *)
(* of its calls either returns a response or raises BinanceAPIException    *)
(* ("rejected") or another exception ("error"); the choice is made         *)
(* nondeterministically in the action that issues the call.                *)
(***************************************************************************)
EXTENDS Integers, Sequences, FiniteSets, TLC

VARIABLES
    pc,     \* position of the running invocation
    args,   \* the arguments the caller supplied
    loc,    \* the invocation's local variables
    calls,  \* exchange calls (and suspensions) issued so far, in order
    exch,   \* the exchange: next order id, resting orders, wire format
    ret     \* the value returned to the caller

vars == <<pc, args, loc, calls, exch, ret>>

----------------------------------------------------------------------------
(* Fixed-point scales and the validator's configuration (defaults).        *)

QtyScale == 10000          \* sub-units per coin      (0.0001)
PriceScale == 1000         \* sub-units per USDT      (0.001)
QtyUnit == 10              \* quantity_precision = 3  -> 0.001 = 10 sub-units
PriceUnit == 10            \* price_precision = 2     -> 0.01  = 10 sub-units
MinOrderSize == 5          \* min_order_size_usdt
MaxOrderSize == 100000     \* max_order_size_usdt
MinPrice == 10             \* min_price = 0.01
MaxPrice == 1000000000     \* max_price = 1000000
DefaultChunks == 5         \* default_chunks
DefaultInterval == 60      \* default_interval_seconds

\* Python's None for an optional number, and the absent field of a request.
NoneNum == -999999
NoStr == "-"
NoSymbol == <<>>

----------------------------------------------------------------------------
(* Strings.  A symbol is a sequence of characters; sides and               *)
(* time-in-force values are drawn from small sets of strings, with         *)
(* str.upper() given by a table.                                           *)

\* The character class [A-Z0-9]
UpperChars ==
    {"A", "B", "C", "D", "E", "F", "G", "H", "I", "J", "K", "L", "M", "N", "O", "P", "Q",
     "R", "S", "T", "U", "V", "W", "X", "Y", "Z",
     "0", "1", "2", "3", "4", "5", "6", "7", "8", "9"}

UpperTable ==
    [s \in {"BUY", "SELL", "buy", "Sell", "HOLD", "GTC", "IOC", "FOK", "gtc", "XYZ"} |->
        CASE s = "buy" -> "BUY"
          [] s = "Sell" -> "SELL"
          [] s = "gtc" -> "GTC"
          [] OTHER -> s]

Upper(s) == UpperTable[s]

EndsWith(s, suffix) ==
    /\ Len(s) >= Len(suffix)
    /\ SubSeq(s, Len(s) - Len(suffix) + 1, Len(s)) = suffix

USDT == <<"U", "S", "D", "T">>

----------------------------------------------------------------------------
(* Arithmetic.                                                             *)

\* round(num / den) to the nearest multiple of unit, ties to even.
RoundDivHalfEven(num, den, unit) ==
    LET d == den * unit
        f == num \div d
        r == num % d
    IN  IF 2 * r < d THEN f * unit
        ELSE IF 2 * r > d THEN (f + 1) * unit
        ELSE IF f % 2 = 0 THEN f * unit ELSE (f + 1) * unit

\* quantity * price in USDT, as whole part (in 1/QtyScale) and remainder.
NotionalHi(q, p) == q * (p \div PriceScale) + (q * (p % PriceScale)) \div PriceScale
NotionalLo(q, p) == (q * (p % PriceScale)) % PriceScale

----------------------------------------------------------------------------
(* OrderValidator                                                          *)

Valid == [is_valid |-> TRUE, error |-> NoStr]
Invalid(error) == [is_valid |-> FALSE, error |-> error]

\* A variant of ReMatchUpperAlnum that searches for a character of the
\* class anywhere in the string.
ReSearchUpperAlnum(s) == \E i \in 1..Len(s) : s[i] \in UpperChars

\* re.match(r'^[A-Z0-9]+$', s): one or more characters of the class up to
\* the end of the string, where "$" also matches just before a final newline.
ReMatchUpperAlnum(s) ==
    LET body == IF Len(s) > 0 /\ s[Len(s)] = "\n" THEN SubSeq(s, 1, Len(s) - 1) ELSE s
    IN  /\ Len(body) > 0
        /\ \A i \in 1..Len(body) : body[i] \in UpperChars

\* validate_symbol(symbol): (is_valid, error_message)
ValidateSymbolResult(symbol) ==
    IF Len(symbol) = 0 THEN Invalid("Symbol cannot be empty")
    ELSE IF ~ ReMatchUpperAlnum(symbol)
      THEN Invalid("Symbol must contain only uppercase letters and numbers")
    ELSE IF ~ EndsWith(symbol, USDT)
      THEN Invalid("Symbol must end with USDT for USDT-M futures")
    ELSE IF Len(symbol) < 6 THEN Invalid("Symbol too short")
    ELSE Valid

ValidateSymbol(symbol) == ValidateSymbolResult(symbol).is_valid

\* A variant of ValidateQuantityResult whose upper bound is exclusive.
ValidateQuantityResultBelowMax(quantity, price) ==
    IF quantity <= 0 THEN Invalid("Quantity must be greater than 0")
    ELSE IF price # NoneNum /\ NotionalHi(quantity, price) < MinOrderSize * QtyScale
      THEN Invalid("Order value below minimum")
    ELSE IF price # NoneNum /\ NotionalHi(quantity, price) >= MaxOrderSize * QtyScale
      THEN Invalid("Order value exceeds maximum")
    ELSE Valid

\* validate_quantity(quantity, price): (is_valid, error_message);
\* price = NoneNum when not supplied
ValidateQuantityResult(quantity, price) ==
    IF quantity <= 0 THEN Invalid("Quantity must be greater than 0")
    ELSE IF price # NoneNum /\ NotionalHi(quantity, price) < MinOrderSize * QtyScale
      THEN Invalid("Order value below minimum")
    ELSE IF price # NoneNum
            /\ (\/ NotionalHi(quantity, price) > MaxOrderSize * QtyScale
                \/ /\ NotionalHi(quantity, price) = MaxOrderSize * QtyScale
                   /\ NotionalLo(quantity, price) > 0)
      THEN Invalid("Order value exceeds maximum")
    ELSE Valid

ValidateQuantity(quantity, price) == ValidateQuantityResult(quantity, price).is_valid

ValidatePrice(price) ==
    /\ price > 0
    /\ price >= MinPrice
    /\ price <= MaxPrice

ValidateSide(side) == Upper(side) \in {"BUY", "SELL"}

ValidateTimeInForce(tif) == Upper(tif) \in {"GTC", "IOC", "FOK"}

ValidateTwapParameters(total_quantity, chunks, interval_seconds) ==
    /\ ValidateQuantity(total_quantity, NoneNum)
    /\ chunks >= 2
    /\ chunks <= 100
    /\ interval_seconds >= 1
    /\ interval_seconds <= 3600
    /\ total_quantity > 0      \* chunk_size = total_quantity / chunks > 0

FormatPrice(price) == RoundDivHalfEven(price, 1, PriceUnit)

FormatQuantity(quantity) == RoundDivHalfEven(quantity, 1, QtyUnit)

----------------------------------------------------------------------------
(* The exchange client.  exch.orders[id] is the status of order id on the  *)
(* exchange, exch.strQty tells whether numeric response fields arrive as   *)
(* strings (the REST API's JSON) or as numbers.                            *)

Resting(ex) == {id \in 1..Len(ex.orders) : ex.orders[id] \in {"NEW", "PARTIALLY_FILLED"}}

NoResp == [orderId |-> NoneNum, status |-> NoStr, executedQty |-> 0, qtyIsStr |-> FALSE]

NoCall ==
    [call |-> NoStr, type |-> NoStr, symbol |-> NoSymbol, side |-> NoStr,
     quantity |-> NoneNum, price |-> NoneNum, stopPrice |-> NoneNum,
     timeInForce |-> NoStr, reduceOnly |-> FALSE, postOnly |-> FALSE,
     orderId |-> NoneNum, seconds |-> NoneNum, outcome |-> NoStr, resp |-> NoResp]

\* What futures_create_order may do with a request: raise, or accept the
\* order with some part of it executed at once.
CreateOutcomes(req) ==
    {[outcome |-> "rejected", status |-> NoStr, executedQty |-> 0],
     [outcome |-> "error", status |-> NoStr, executedQty |-> 0],
     [outcome |-> "ok", status |-> "NEW", executedQty |-> 0]}
    \cup
    (IF req.type \in {"MARKET", "LIMIT"}
        THEN {[outcome |-> "ok", status |-> "FILLED", executedQty |-> req.quantity]}
             \cup (IF req.quantity > QtyUnit
                     THEN {[outcome |-> "ok", status |-> "PARTIALLY_FILLED",
                            executedQty |-> QtyUnit]}
                     ELSE {})
        ELSE {})

\* The outcomes of a call that carries no order: cancel, query, ticker.
CallOutcomes == {"ok", "rejected", "error"}

ExchangeCreate(ex, o) ==
    IF o.outcome = "ok"
      THEN [exch |-> [ex EXCEPT !.orders = Append(@, o.status)],
            resp |-> [orderId |-> Len(ex.orders) + 1, status |-> o.status,
                      executedQty |-> o.executedQty, qtyIsStr |-> ex.strQty]]
      ELSE [exch |-> ex, resp |-> NoResp]

\* futures_cancel_order succeeds only on an order that is still open.
ExchangeCancel(ex, order_id, out) ==
    IF out = "ok" /\ order_id \in Resting(ex)
      THEN [exch |-> [ex EXCEPT !.orders[order_id] = "CANCELED"], outcome |-> "ok"]
      ELSE [exch |-> ex, outcome |-> IF out = "ok" THEN "rejected" ELSE out]

----------------------------------------------------------------------------
(* Primitive order executor.  Every operation yields the calls it issued,  *)
(* the exchange afterwards, its return value and the reason it logged.     *)

None == [kind |-> "None"]
Order(resp) == [kind |-> "order", order |-> resp]
Truthy(r) == r.kind # "None"

\* Records handed to the logger at warning level or above.
\* logger.error(f"Invalid ...: {error}")
ValidationRecord(reason) == [record |-> "error", status |-> NoStr, error |-> reason]
\* logger.log_error_trace(e, context): the exception's type and text
ErrorTrace(outcome) == [record |-> "error_trace", status |-> NoStr, error |-> outcome]
\* logger.log_api_call(status="FAILED", error_code=e.code, error_msg=e.message)
ApiCallFailed(outcome) == [record |-> "api_call", status |-> "FAILED", error |-> outcome]

\* "except BinanceAPIException" of market_orders.py: the trace, then the
\* failed API call with the exchange's code and message
ApiExceptionRecords(r, outcome) ==
    IF outcome = "rejected" THEN [r EXCEPT !.log = @ \o <<ApiCallFailed(outcome)>>] ELSE r

Refuse(ex, reason) ==
    [calls |-> <<>>, exch |-> ex, ret |-> None, err |-> reason,
     log |-> <<ValidationRecord(reason)>>]

\* A variant of Submit that repeats the call once after a failure.
SubmitRetry(ex, req, o) ==
    LET x == ExchangeCreate(ex, o)
        c == [req EXCEPT !.outcome = o.outcome, !.resp = x.resp]
    IN  [calls |-> IF o.outcome = "ok" THEN <<c>> ELSE <<c, c>>,
         exch  |-> x.exch,
         ret   |-> IF o.outcome = "ok" THEN Order(x.resp) ELSE None,
         err   |-> IF o.outcome = "ok" THEN NoStr ELSE o.outcome,
         log   |-> IF o.outcome = "ok" THEN <<>> ELSE <<ErrorTrace(o.outcome)>>]

\* A variant of Submit without the except clauses: the exception leaves the
\* operation.
SubmitPropagates(ex, req, o) ==
    LET x == ExchangeCreate(ex, o)
    IN  [calls |-> <<[req EXCEPT !.outcome = o.outcome, !.resp = x.resp]>>,
         exch  |-> x.exch,
         ret   |-> IF o.outcome = "ok" THEN Order(x.resp) ELSE [kind |-> "raised"],
         err   |-> IF o.outcome = "ok" THEN NoStr ELSE o.outcome,
         log   |-> <<>>]

\* try: order = client.futures_create_order(...); return order
\* except Exception: log_error_trace(e, ...); return None
Submit(ex, req, o) ==
    LET x == ExchangeCreate(ex, o)
    IN  [calls |-> <<[req EXCEPT !.outcome = o.outcome, !.resp = x.resp]>>,
         exch  |-> x.exch,
         ret   |-> IF o.outcome = "ok" THEN Order(x.resp) ELSE None,
         err   |-> IF o.outcome = "ok" THEN NoStr ELSE o.outcome,
         log   |-> IF o.outcome = "ok" THEN <<>> ELSE <<ErrorTrace(o.outcome)>>]

MarketRequest(symbol, side, quantity, reduce_only) ==
    [NoCall EXCEPT !.call = "create", !.type = "MARKET", !.symbol = symbol,
                   !.side = Upper(side), !.quantity = FormatQuantity(quantity),
                   !.reduceOnly = reduce_only]

PlaceMarketOrder(ex, symbol, side, quantity, reduce_only, o) ==
    IF ~ ValidateSymbol(symbol) THEN Refuse(ex, "Invalid symbol")
    ELSE IF ~ ValidateSide(side) THEN Refuse(ex, "Invalid side")
    ELSE IF ~ ValidateQuantity(quantity, NoneNum) THEN Refuse(ex, "Invalid quantity")
    ELSE ApiExceptionRecords(Submit(ex, MarketRequest(symbol, side, quantity, reduce_only), o),
                             o.outcome)

LimitRequest(symbol, side, quantity, price, time_in_force, reduce_only, post_only) ==
    [NoCall EXCEPT !.call = "create", !.type = "LIMIT", !.symbol = symbol,
                   !.side = Upper(side), !.quantity = FormatQuantity(quantity),
                   !.price = FormatPrice(price),
                   !.timeInForce = Upper(time_in_force),
                   !.reduceOnly = reduce_only, !.postOnly = post_only]

PlaceLimitOrder(ex, symbol, side, quantity, price, time_in_force, reduce_only, post_only, o) ==
    IF ~ ValidateSymbol(symbol) THEN Refuse(ex, "Invalid symbol")
    ELSE IF ~ ValidateSide(side) THEN Refuse(ex, "Invalid side")
    ELSE IF ~ ValidatePrice(price) THEN Refuse(ex, "Invalid price")
    ELSE IF ~ ValidateQuantity(quantity, price) THEN Refuse(ex, "Invalid quantity")
    ELSE IF ~ ValidateTimeInForce(time_in_force) THEN Refuse(ex, "Invalid time in force")
    ELSE ApiExceptionRecords(Submit(ex, LimitRequest(symbol, side, quantity, price,
                                                     time_in_force, reduce_only,
                                                     post_only), o),
                             o.outcome)

StopLimitRequest(symbol, side, quantity, price, stop_price, time_in_force, reduce_only) ==
    [NoCall EXCEPT !.call = "create", !.type = "STOP", !.symbol = symbol,
                   !.side = Upper(side), !.quantity = FormatQuantity(quantity),
                   !.price = FormatPrice(price),
                   !.stopPrice = FormatPrice(stop_price),
                   !.timeInForce = Upper(time_in_force),
                   !.reduceOnly = reduce_only]

PlaceStopLimitOrder(ex, symbol, side, quantity, price, stop_price, time_in_force, reduce_only, o) ==
    IF ~ ValidateSymbol(symbol) THEN Refuse(ex, "Invalid symbol")
    ELSE IF ~ ValidateSide(side) THEN Refuse(ex, "Invalid side")
    ELSE IF ~ ValidatePrice(price) THEN Refuse(ex, "Invalid price")
    ELSE IF ~ ValidatePrice(stop_price) THEN Refuse(ex, "Invalid stop price")
    ELSE IF ~ ValidateQuantity(quantity, price) THEN Refuse(ex, "Invalid quantity")
    ELSE Submit(ex, StopLimitRequest(symbol, side, quantity, price, stop_price,
                                     time_in_force, reduce_only), o)

StopMarketRequest(symbol, side, quantity, stop_price, reduce_only) ==
    [NoCall EXCEPT !.call = "create", !.type = "STOP_MARKET", !.symbol = symbol,
                   !.side = Upper(side), !.quantity = FormatQuantity(quantity),
                   !.stopPrice = FormatPrice(stop_price),
                   !.reduceOnly = reduce_only]

PlaceStopMarketOrder(ex, symbol, side, quantity, stop_price, reduce_only, o) ==
    IF ~ ValidateSymbol(symbol) THEN Refuse(ex, "Invalid symbol")
    ELSE IF ~ ValidateSide(side) THEN Refuse(ex, "Invalid side")
    ELSE IF ~ ValidatePrice(stop_price) THEN Refuse(ex, "Invalid stop price")
    ELSE IF ~ ValidateQuantity(quantity, NoneNum) THEN Refuse(ex, "Invalid quantity")
    ELSE Submit(ex, StopMarketRequest(symbol, side, quantity, stop_price, reduce_only), o)

\* price = NoneNum places a TAKE_PROFIT_MARKET order
TakeProfitRequest(symbol, side, quantity, stop_price, price, reduce_only) ==
    [NoCall EXCEPT !.call = "create",
                   !.type = IF price = NoneNum THEN "TAKE_PROFIT_MARKET" ELSE "TAKE_PROFIT",
                   !.symbol = symbol,
                   !.side = Upper(side), !.quantity = FormatQuantity(quantity),
                   !.stopPrice = FormatPrice(stop_price),
                   !.price = IF price = NoneNum THEN NoneNum ELSE FormatPrice(price),
                   !.timeInForce = IF price = NoneNum THEN NoStr ELSE "GTC",
                   !.reduceOnly = reduce_only]

PlaceTakeProfitOrder(ex, symbol, side, quantity, stop_price, price, reduce_only, o) ==
    IF ~ ValidateSymbol(symbol) THEN Refuse(ex, "Invalid symbol")
    ELSE IF ~ ValidateSide(side) THEN Refuse(ex, "Invalid side")
    ELSE IF ~ ValidatePrice(stop_price) THEN Refuse(ex, "Invalid stop price")
    ELSE IF ~ ValidateQuantity(quantity, NoneNum) THEN Refuse(ex, "Invalid quantity")
    ELSE Submit(ex, TakeProfitRequest(symbol, side, quantity, stop_price, price,
                                      reduce_only), o)

\* cancel_order: one futures_cancel_order call; True, or False on any exception
CancelOrder(ex, symbol, order_id, out) ==
    LET x == ExchangeCancel(ex, order_id, out)
    IN  [calls |-> <<[NoCall EXCEPT !.call = "cancel", !.symbol = symbol,
                                    !.orderId = order_id, !.outcome = x.outcome]>>,
         exch  |-> x.exch,
         ret   |-> x.outcome = "ok",
         log   |-> IF x.outcome = "ok" THEN <<>>
                   ELSE IF x.outcome = "rejected"
                     THEN <<ErrorTrace(x.outcome), ApiCallFailed(x.outcome)>>
                   ELSE <<ErrorTrace(x.outcome)>>]

\* get_order_status: one futures_get_order call; the order, or None on any exception
GetOrderStatus(ex, symbol, order_id, out) ==
    LET found == out = "ok" /\ order_id \in 1..Len(ex.orders)
        resp  == IF found
                   THEN [orderId |-> order_id, status |-> ex.orders[order_id],
                         executedQty |-> 0, qtyIsStr |-> ex.strQty]
                   ELSE NoResp
    IN  [calls |-> <<[NoCall EXCEPT !.call = "get_order", !.symbol = symbol,
                                    !.orderId = order_id,
                                    !.outcome = IF found THEN "ok"
                                                ELSE IF out = "ok" THEN "rejected" ELSE out,
                                    !.resp = resp]>>,
         exch  |-> ex,
         ret   |-> IF found THEN Order(resp) ELSE None,
         log   |-> IF found THEN <<>>
                   ELSE <<ErrorTrace(IF out = "ok" THEN "rejected" ELSE out)>>]

----------------------------------------------------------------------------
(* Inputs.                                                                 *)

BTCUSDT == <<"B", "T", "C", "U", "S", "D", "T">>

\* BTCUSDT, btcusdt (case), BTC (suffix, length)
Symbols == {BTCUSDT, <<"b", "t", "c", "u", "s", "d", "t">>, <<"B", "T", "C">>}

Sides == {"BUY", "Sell", "HOLD"}

TimesInForce == {"GTC", "gtc", "IOC", "XYZ"}

\* 0, 0.0004, 0.001, 0.0014, 0.0026, 3 coins
Quantities == {0, 4, 10, 14, 26, 30000}

\* 0, 0.004, 49999.994, 50000, 1000000.001 USDT
Prices == {0, 4, 49999994, 50000000, MaxPrice + 1}

PlaceOps == {"place_market_order", "place_limit_order", "place_stop_limit_order",
             "place_stop_market_order", "place_take_profit_order"}

NoArgs ==
    [op |-> NoStr, symbol |-> NoSymbol, side |-> NoStr, quantity |-> NoneNum,
     price |-> NoneNum, stop_price |-> NoneNum, time_in_force |-> NoStr,
     reduce_only |-> FALSE, post_only |-> FALSE]

----------------------------------------------------------------------------
(* Specification of the primitive order executor: one invocation of one    *)
(* place-* operation on a fresh executor.                                  *)

InitPlace ==
    /\ pc = "idle"
    /\ args = NoArgs
    /\ loc = [err |-> NoStr, log |-> <<>>]
    /\ calls = <<>>
    /\ exch \in {[orders |-> <<>>, strQty |-> b] : b \in BOOLEAN}
    /\ ret = None

Returned(a, r) ==
    /\ pc' = "done"
    /\ args' = a
    /\ loc' = [err |-> r.err, log |-> r.log]
    /\ calls' = r.calls
    /\ exch' = r.exch
    /\ ret' = r.ret

DoPlaceMarketOrder ==
    /\ pc = "idle"
    /\ \E symbol \in Symbols, side \in Sides, quantity \in Quantities, reduce_only \in BOOLEAN :
         \E o \in CreateOutcomes(MarketRequest(symbol, side, quantity, reduce_only)) :
            Returned([NoArgs EXCEPT !.op = "place_market_order", !.symbol = symbol,
                                    !.side = side, !.quantity = quantity,
                                    !.reduce_only = reduce_only],
                     PlaceMarketOrder(exch, symbol, side, quantity, reduce_only, o))

DoPlaceLimitOrder ==
    /\ pc = "idle"
    /\ \E symbol \in Symbols, side \in Sides, quantity \in Quantities, price \in Prices,
          time_in_force \in TimesInForce, reduce_only \in BOOLEAN, post_only \in BOOLEAN :
         \E o \in CreateOutcomes(LimitRequest(symbol, side, quantity, price, time_in_force,
                                              reduce_only, post_only)) :
            Returned([NoArgs EXCEPT !.op = "place_limit_order", !.symbol = symbol,
                                    !.side = side, !.quantity = quantity, !.price = price,
                                    !.time_in_force = time_in_force,
                                    !.reduce_only = reduce_only, !.post_only = post_only],
                     PlaceLimitOrder(exch, symbol, side, quantity, price, time_in_force,
                                     reduce_only, post_only, o))

DoPlaceStopLimitOrder ==
    /\ pc = "idle"
    /\ \E symbol \in Symbols, side \in Sides, quantity \in Quantities, price \in Prices,
          stop_price \in Prices, time_in_force \in TimesInForce, reduce_only \in BOOLEAN :
         \E o \in CreateOutcomes(StopLimitRequest(symbol, side, quantity, price, stop_price,
                                                  time_in_force, reduce_only)) :
            Returned([NoArgs EXCEPT !.op = "place_stop_limit_order", !.symbol = symbol,
                                    !.side = side, !.quantity = quantity, !.price = price,
                                    !.stop_price = stop_price,
                                    !.time_in_force = time_in_force,
                                    !.reduce_only = reduce_only],
                     PlaceStopLimitOrder(exch, symbol, side, quantity, price, stop_price,
                                         time_in_force, reduce_only, o))

DoPlaceStopMarketOrder ==
    /\ pc = "idle"
    /\ \E symbol \in Symbols, side \in Sides, quantity \in Quantities,
          stop_price \in Prices, reduce_only \in BOOLEAN :
         \E o \in CreateOutcomes(StopMarketRequest(symbol, side, quantity, stop_price,
                                                   reduce_only)) :
            Returned([NoArgs EXCEPT !.op = "place_stop_market_order", !.symbol = symbol,
                                    !.side = side, !.quantity = quantity,
                                    !.stop_price = stop_price,
                                    !.reduce_only = reduce_only],
                     PlaceStopMarketOrder(exch, symbol, side, quantity, stop_price,
                                          reduce_only, o))

DoPlaceTakeProfitOrder ==
    /\ pc = "idle"
    /\ \E symbol \in Symbols, side \in Sides, quantity \in Quantities,
          stop_price \in Prices, price \in Prices \cup {NoneNum}, reduce_only \in BOOLEAN :
         \E o \in CreateOutcomes(TakeProfitRequest(symbol, side, quantity, stop_price,
                                                   price, reduce_only)) :
            Returned([NoArgs EXCEPT !.op = "place_take_profit_order", !.symbol = symbol,
                                    !.side = side, !.quantity = quantity,
                                    !.stop_price = stop_price, !.price = price,
                                    !.reduce_only = reduce_only],
                     PlaceTakeProfitOrder(exch, symbol, side, quantity, stop_price, price,
                                          reduce_only, o))

NextPlace ==
    \/ DoPlaceMarketOrder
    \/ DoPlaceLimitOrder
    \/ DoPlaceStopLimitOrder
    \/ DoPlaceStopMarketOrder
    \/ DoPlaceTakeProfitOrder

SpecPlace == InitPlace /\ [][NextPlace]_vars

----------------------------------------------------------------------------
(* Claims about the primitive order executor.                              *)

ValidationReasons ==
    {"Invalid symbol", "Invalid side", "Invalid price", "Invalid stop price",
     "Invalid quantity", "Invalid time in force"}

\* Every validator check that applies to an argument of the operation
\* passes: symbol, side, price(s), quantity, time-in-force.
ArgChecksPass(a) ==
    /\ ValidateSymbol(a.symbol)
    /\ ValidateSide(a.side)
    /\ a.price # NoneNum => ValidatePrice(a.price)
    /\ a.stop_price # NoneNum => ValidatePrice(a.stop_price)
    /\ ValidateQuantity(a.quantity,
                        IF a.op \in {"place_limit_order", "place_stop_limit_order"}
                          THEN a.price ELSE NoneNum)
    /\ a.time_in_force # NoStr => ValidateTimeInForce(a.time_in_force)

PlaceDone == pc = "done" /\ args.op \in PlaceOps

\* C1: if any validator check on the arguments of a place-* operation fails,
\* the operation returns None and issued no exchange call.
C1_InvalidArgumentsIssueNoCall ==
    (PlaceDone /\ ~ ArgChecksPass(args)) => (ret = None /\ calls = <<>>)

\* C2: a place-* operation whose arguments pass validation issues exactly one
\* create-order call, whether the call succeeds or fails; it returns the
\* exchange's response unchanged on success and None on failure.
C2_ValidatedOrderIssuesExactlyOneCall ==
    PlaceDone =>
      /\ ArgChecksPass(args) => loc.err \notin ValidationReasons
      /\ loc.err \notin ValidationReasons =>
           /\ Len(calls) = 1
           /\ calls[1].call = "create"
           /\ calls[1].outcome = "ok" => ret = Order(calls[1].resp)
           /\ calls[1].outcome # "ok" => ret = None
           /\ Len(exch.orders) = IF calls[1].outcome = "ok" THEN 1 ELSE 0

C2_Witness ==
    /\ PlaceDone
    /\ ArgChecksPass(args)
    /\ Len(calls) = 1
    /\ calls[1].outcome = "ok"
    /\ ret = Order(calls[1].resp)

C2_Witness_Failure ==
    /\ PlaceDone
    /\ ArgChecksPass(args)
    /\ Len(calls) = 1
    /\ calls[1].outcome = "rejected"
    /\ ret = None

----------------------------------------------------------------------------
(* OCOOrderExecutor.  place_oco_order and monitor_oco_orders run as a      *)
(* sequence of steps, one per exchange call, so that the exchange may fill *)
(* a resting order between two calls of the engine.                        *)

OcoQuantities == {0, 4, 10, 14}

\* 0, 48000, 52000, 52000.004 USDT
OcoPrices == {0, 48000000, 52000000, 52000004}

NoOcoArgs ==
    [op |-> NoStr, symbol |-> NoSymbol, side |-> NoStr, quantity |-> NoneNum,
     take_profit_price |-> NoneNum, stop_loss_price |-> NoneNum,
     tp_order_id |-> NoneNum, sl_order_id |-> NoneNum]

NoOcoLocals == [err |-> NoStr, tp_order |-> None, sl_order |-> None]

Pair(tp, sl) == [kind |-> "pair", tp |-> tp, sl |-> sl]
Str(v) == [kind |-> "str", value |-> v]

\* "Validate price relationship": TRUE when the pair is accepted
OcoPriceOrderOkNonStrict(side, take_profit_price, stop_loss_price) ==
    IF Upper(side) = "SELL"
      THEN ~ (take_profit_price < stop_loss_price)
      ELSE ~ (stop_loss_price < take_profit_price)

OcoPriceOrderOk(side, take_profit_price, stop_loss_price) ==
    IF Upper(side) = "SELL"
      THEN ~ (take_profit_price <= stop_loss_price)
      ELSE ~ (stop_loss_price <= take_profit_price)

\* The reason place_oco_order logs before returning None, NoStr when it goes on
OcoValidation(a) ==
    IF ~ ValidateSymbol(a.symbol) THEN "Invalid symbol"
    ELSE IF ~ ValidateSide(a.side) THEN "Invalid side"
    ELSE IF ~ ValidateQuantity(a.quantity, NoneNum) THEN "Invalid quantity"
    ELSE IF ~ ValidatePrice(a.take_profit_price) THEN "Invalid take profit price"
    ELSE IF ~ ValidatePrice(a.stop_loss_price) THEN "Invalid stop loss price"
    ELSE IF ~ OcoPriceOrderOk(a.side, a.take_profit_price, a.stop_loss_price)
      THEN "Invalid price relationship"
    ELSE NoStr

OcoTakeProfitLeg(ex, a, o) ==
    PlaceTakeProfitOrder(ex, a.symbol, a.side, a.quantity, a.take_profit_price,
                         NoneNum, TRUE, o)

OcoStopLossLegNotReduceOnly(ex, a, o) ==
    PlaceStopMarketOrder(ex, a.symbol, a.side, a.quantity, a.stop_loss_price, FALSE, o)

OcoStopLossLeg(ex, a, o) ==
    PlaceStopMarketOrder(ex, a.symbol, a.side, a.quantity, a.stop_loss_price, TRUE, o)

InitOCO ==
    /\ pc = "idle"
    /\ args = NoOcoArgs
    /\ loc = NoOcoLocals
    /\ calls = <<>>
    /\ exch \in {[orders |-> <<>>, strQty |-> b] : b \in BOOLEAN}
    /\ ret = None

\* place_oco_order, up to the first exchange call
OcoInvoke ==
    /\ pc = "idle"
    /\ \E symbol \in Symbols, side \in Sides, quantity \in OcoQuantities,
          take_profit_price \in OcoPrices, stop_loss_price \in OcoPrices :
         LET a == [NoOcoArgs EXCEPT !.op = "place_oco_order", !.symbol = symbol,
                                    !.side = side, !.quantity = quantity,
                                    !.take_profit_price = take_profit_price,
                                    !.stop_loss_price = stop_loss_price]
         IN  /\ args' = a
             /\ loc' = [NoOcoLocals EXCEPT !.err = OcoValidation(a)]
             /\ pc' = IF OcoValidation(a) = NoStr THEN "tp" ELSE "done"
    /\ ret' = None
    /\ calls' = <<>>
    /\ UNCHANGED exch

\* "Place take profit order"; abort when it returns no result
OcoTakeProfitIgnoresFailure ==
    /\ pc = "tp"
    /\ \E o \in CreateOutcomes(TakeProfitRequest(args.symbol, args.side, args.quantity,
                                                 args.take_profit_price, NoneNum, TRUE)) :
         LET r == OcoTakeProfitLeg(exch, args, o)
         IN  /\ calls' = calls \o r.calls
             /\ exch' = r.exch
             /\ loc' = [loc EXCEPT !.tp_order = r.ret]
             /\ pc' = "sl"
             /\ ret' = None
    /\ UNCHANGED args

OcoTakeProfit ==
    /\ pc = "tp"
    /\ \E o \in CreateOutcomes(TakeProfitRequest(args.symbol, args.side, args.quantity,
                                                 args.take_profit_price, NoneNum, TRUE)) :
         LET r == OcoTakeProfitLeg(exch, args, o)
         IN  /\ calls' = calls \o r.calls
             /\ exch' = r.exch
             /\ loc' = [loc EXCEPT !.tp_order = r.ret,
                                   !.err = IF Truthy(r.ret) THEN NoStr
                                           ELSE "Failed to place take profit order"]
             /\ pc' = IF Truthy(r.ret) THEN "sl" ELSE "done"
             /\ ret' = None
    /\ UNCHANGED args

\* "Place stop loss order"; on success return the pair
OcoStopLoss ==
    /\ pc = "sl"
    /\ \E o \in CreateOutcomes(StopMarketRequest(args.symbol, args.side, args.quantity,
                                                 args.stop_loss_price, TRUE)) :
         LET r == OcoStopLossLeg(exch, args, o)
         IN  /\ calls' = calls \o r.calls
             /\ exch' = r.exch
             /\ loc' = [loc EXCEPT !.sl_order = r.ret,
                                   !.err = IF Truthy(r.ret) THEN NoStr
                                           ELSE "Failed to place stop loss order"]
             /\ pc' = IF Truthy(r.ret) THEN "done" ELSE "cancel"
             /\ ret' = IF Truthy(r.ret) THEN Pair(loc.tp_order.order, r.ret.order) ELSE None
    /\ UNCHANGED args

\* "Cancel the take profit order"; the result of cancel_order is not looked at
OcoCancelWrongOrder ==
    /\ pc = "cancel"
    /\ \E out \in CallOutcomes :
         LET r == CancelOrder(exch, args.symbol, loc.tp_order.order.orderId + 1, out)
         IN  /\ calls' = calls \o r.calls
             /\ exch' = r.exch
    /\ pc' = "done"
    /\ ret' = None
    /\ UNCHANGED <<args, loc>>

OcoCancel ==
    /\ pc = "cancel"
    /\ \E out \in CallOutcomes :
         LET r == CancelOrder(exch, args.symbol, loc.tp_order.order.orderId, out)
         IN  /\ calls' = calls \o r.calls
             /\ exch' = r.exch
    /\ pc' = "done"
    /\ ret' = None
    /\ UNCHANGED <<args, loc>>

\* The market triggers and fills a resting order.
ExchangeFill ==
    /\ \E id \in Resting(exch) : exch' = [exch EXCEPT !.orders[id] = "FILLED"]
    /\ UNCHANGED <<pc, args, loc, calls, ret>>

\* monitor_oco_orders on the pair place_oco_order returned
MonitorInvoke ==
    /\ pc = "done"
    /\ args.op = "place_oco_order"
    /\ ret.kind = "pair"
    /\ args' = [NoOcoArgs EXCEPT !.op = "monitor_oco_orders", !.symbol = args.symbol,
                                 !.tp_order_id = ret.tp.orderId,
                                 !.sl_order_id = ret.sl.orderId]
    /\ loc' = NoOcoLocals
    /\ calls' = <<>>
    /\ ret' = None
    /\ pc' = "mon_tp"
    /\ UNCHANGED exch

\* "Check take profit order"
MonitorCheckTakeProfit ==
    /\ pc = "mon_tp"
    /\ \E out \in CallOutcomes :
         LET r == GetOrderStatus(exch, args.symbol, args.tp_order_id, out)
         IN  /\ calls' = calls \o r.calls
             /\ pc' = IF Truthy(r.ret) /\ r.ret.order.status = "FILLED"
                        THEN "mon_cancel_sl" ELSE "mon_sl"
    /\ UNCHANGED <<args, loc, exch, ret>>

MonitorCancelStopLossWrongLeg ==
    /\ pc = "mon_cancel_sl"
    /\ \E out \in CallOutcomes :
         LET r == CancelOrder(exch, args.symbol, args.tp_order_id, out)
         IN  /\ calls' = calls \o r.calls
             /\ exch' = r.exch
    /\ ret' = Str("TP")
    /\ pc' = "mdone"
    /\ UNCHANGED <<args, loc>>

MonitorCancelStopLoss ==
    /\ pc = "mon_cancel_sl"
    /\ \E out \in CallOutcomes :
         LET r == CancelOrder(exch, args.symbol, args.sl_order_id, out)
         IN  /\ calls' = calls \o r.calls
             /\ exch' = r.exch
    /\ ret' = Str("TP")
    /\ pc' = "mdone"
    /\ UNCHANGED <<args, loc>>

\* "Check stop loss order"
MonitorCheckStopLoss ==
    /\ pc = "mon_sl"
    /\ \E out \in CallOutcomes :
         LET r == GetOrderStatus(exch, args.symbol, args.sl_order_id, out)
         IN  /\ calls' = calls \o r.calls
             /\ pc' = IF Truthy(r.ret) /\ r.ret.order.status = "FILLED"
                        THEN "mon_cancel_tp" ELSE "mdone"
    /\ ret' = None
    /\ UNCHANGED <<args, loc, exch>>

MonitorCancelTakeProfit ==
    /\ pc = "mon_cancel_tp"
    /\ \E out \in CallOutcomes :
         LET r == CancelOrder(exch, args.symbol, args.tp_order_id, out)
         IN  /\ calls' = calls \o r.calls
             /\ exch' = r.exch
    /\ ret' = Str("SL")
    /\ pc' = "mdone"
    /\ UNCHANGED <<args, loc>>

NextOCO ==
    \/ OcoInvoke
    \/ OcoTakeProfit
    \/ OcoStopLoss
    \/ OcoCancel
    \/ ExchangeFill
    \/ MonitorInvoke
    \/ MonitorCheckTakeProfit
    \/ MonitorCancelStopLoss
    \/ MonitorCheckStopLoss
    \/ MonitorCancelTakeProfit

SpecOCO == InitOCO /\ [][NextOCO]_vars

----------------------------------------------------------------------------
(* Claims about the OCO coordinator.                                       *)

OcoDone == pc = "done" /\ args.op = "place_oco_order"

IsCreate(c, type) == c.call = "create" /\ c.type = type

Cancels == SelectSeq(calls, LAMBDA c : c.call = "cancel")

\* C3: whenever place_oco_order returns None, no order created by that call
\* is left resting on the exchange, whatever the outcome of the stop-loss
\* placement and of the compensating cancel.
C3_FailureLeavesNoOrderResting ==
    (OcoDone /\ ret = None) => Resting(exch) = {}

\* C4: if the take-profit placement succeeds and the stop-loss placement
\* returns no result, exactly one cancel call is issued, for the take-profit
\* order's identifier, after the failed stop-loss attempt, and the call
\* returns None.
C4_StopLossFailureCancelsTakeProfit ==
    (/\ OcoDone
     /\ Len(calls) >= 1
     /\ calls[1].outcome = "ok"
     /\ ~ (Len(calls) >= 2 /\ calls[2].call = "create" /\ calls[2].outcome = "ok"))
    =>
    /\ Len(calls) = 3
    /\ IsCreate(calls[1], "TAKE_PROFIT_MARKET")
    /\ IsCreate(calls[2], "STOP_MARKET")
    /\ calls[2].outcome # "ok"
    /\ calls[3].call = "cancel"
    /\ calls[3].symbol = args.symbol
    /\ calls[3].orderId = calls[1].resp.orderId
    /\ ret = None

C4_Witness ==
    /\ OcoDone
    /\ Len(calls) = 3
    /\ calls[1].outcome = "ok"
    /\ calls[2].outcome = "rejected"
    /\ calls[3].call = "cancel"
    /\ calls[3].orderId = calls[1].resp.orderId

\* C5: if the take-profit placement returns no result, place_oco_order returns
\* None having issued no stop-loss create-order call and no cancel call.
C5_TakeProfitFailureAborts ==
    (/\ args.op = "place_oco_order"
     /\ Len(calls) >= 1
     /\ calls[1].outcome # "ok")
    =>
    /\ Len(calls) = 1
    /\ pc = "done"
    /\ ret = None

C5_Witness ==
    /\ OcoDone
    /\ Len(calls) = 1
    /\ IsCreate(calls[1], "TAKE_PROFIT_MARKET")
    /\ calls[1].outcome = "error"
    /\ ret = None

\* C6: place_oco_order issues an exchange call only if take-profit price >
\* stop-loss price for a SELL exit, stop-loss price > take-profit price for a
\* BUY exit (side compared case-insensitively); equal prices place nothing.
C6_CallsOnlyForOrderedPrices ==
    (args.op = "place_oco_order" /\ calls # <<>>)
    =>
    \/ Upper(args.side) = "SELL" /\ args.take_profit_price > args.stop_loss_price
    \/ Upper(args.side) = "BUY" /\ args.stop_loss_price > args.take_profit_price

C6_Witness ==
    /\ args.op = "place_oco_order"
    /\ calls # <<>>
    /\ args.side = "Sell"
    /\ args.take_profit_price > args.stop_loss_price

C6_Witness_EqualPricesRejected ==
    /\ OcoDone
    /\ ValidatePrice(args.take_profit_price)
    /\ args.take_profit_price = args.stop_loss_price
    /\ loc.err = "Invalid price relationship"
    /\ calls = <<>>
    /\ ret = None

SawFilled(order_id) ==
    \E i \in 1..Len(calls) :
        /\ calls[i].call = "get_order"
        /\ calls[i].orderId = order_id
        /\ calls[i].outcome = "ok"
        /\ calls[i].resp.status = "FILLED"

\* C7: monitor_oco_orders cancels the other leg and reports the filled one
\* when it observes a leg FILLED; when it observes none FILLED (also when a
\* status query fails) it issues no cancel and returns None; at most one
\* cancel call is issued and it is never for the leg reported.
C7_MonitorCancelsTheOtherLeg ==
    args.op = "monitor_oco_orders" =>
      /\ Len(Cancels) <= 1
      /\ pc = "mdone" =>
           /\ SawFilled(args.tp_order_id) =>
                /\ ret = Str("TP")
                /\ Len(Cancels) = 1
                /\ Cancels[1].orderId = args.sl_order_id
           /\ (~ SawFilled(args.tp_order_id) /\ SawFilled(args.sl_order_id)) =>
                /\ ret = Str("SL")
                /\ Len(Cancels) = 1
                /\ Cancels[1].orderId = args.tp_order_id
           /\ (~ SawFilled(args.tp_order_id) /\ ~ SawFilled(args.sl_order_id)) =>
                /\ ret = None
                /\ Cancels = <<>>
           /\ \A i \in 1..Len(Cancels) :
                /\ ret = Str("TP") => Cancels[i].orderId # args.tp_order_id
                /\ ret = Str("SL") => Cancels[i].orderId # args.sl_order_id

C7_Witness ==
    /\ args.op = "monitor_oco_orders"
    /\ pc = "mdone"
    /\ ~ SawFilled(args.tp_order_id)
    /\ SawFilled(args.sl_order_id)
    /\ ret = Str("SL")
    /\ Len(Cancels) = 1
    /\ Cancels[1].orderId = args.tp_order_id

C7_Witness_QueryFails ==
    /\ args.op = "monitor_oco_orders"
    /\ pc = "mdone"
    /\ exch.orders[args.tp_order_id] = "FILLED"
    /\ calls[1].outcome = "error"
    /\ ret = None
    /\ Cancels = <<>>

OcoPairShape ==
    /\ Len(calls) = 2
    /\ IsCreate(calls[1], "TAKE_PROFIT_MARKET")
    /\ IsCreate(calls[2], "STOP_MARKET")
    /\ calls[1].outcome = "ok"
    /\ calls[2].outcome = "ok"
    /\ calls[1].reduceOnly
    /\ calls[2].reduceOnly
    /\ calls[1].symbol = args.symbol
    /\ calls[2].symbol = args.symbol
    /\ Cancels = <<>>
    /\ ret = Pair(calls[1].resp, calls[2].resp)

\* C8 as stated: when place_oco_order returns a pair, exactly two create-order
\* calls were issued, take-profit first and stop-loss second, both reduce-only
\* and both with the caller's symbol, side and quantity; no cancel was issued
\* and the pair is (take-profit response, stop-loss response).
C8_PairCarriesCallersSideAndQuantity ==
    (OcoDone /\ ret.kind = "pair") =>
      /\ OcoPairShape
      /\ \A i \in 1..2 :
           /\ calls[i].side = args.side
           /\ calls[i].quantity = args.quantity

\* C8 as amended: the two calls carry the caller's symbol, the caller's side
\* in upper case and the caller's quantity rounded to the quantity precision.
C8_PairCarriesFormattedSideAndQuantity ==
    (OcoDone /\ ret.kind = "pair") =>
      /\ OcoPairShape
      /\ \A i \in 1..2 :
           /\ calls[i].side = Upper(args.side)
           /\ calls[i].quantity = FormatQuantity(args.quantity)

C8_Witness ==
    /\ OcoDone
    /\ ret.kind = "pair"
    /\ Len(calls) = 2
    /\ args.side = "Sell"
    /\ calls[1].quantity # args.quantity
    /\ ret.tp = calls[1].resp
    /\ ret.sl = calls[2].resp

----------------------------------------------------------------------------
(* TWAPExecutor.  execute_twap_order runs as one step per loop iteration   *)
(* (chunk size, ticker, placement, suspension).                            *)

MaxChunks == 3

\* BTCUSDT and btcusdt
TwapSymbols == {BTCUSDT, <<"b", "t", "c", "u", "s", "d", "t">>}

\* 0, 0.0004, 0.003, 0.01 coins
TwapQuantities == {0, 4, 30, 100}

\* None, 0, 1 .. MaxChunks, 101
TwapChunkCounts == {NoneNum, 0, 101} \cup (1..MaxChunks)

\* None, 0, 1, 3601 seconds
TwapIntervals == {NoneNum, 0, 1, 3601}

\* futures_symbol_ticker: 2000 USDT, or an exception
TickerOutcomes == {2000000, NoneNum}

\* limit_offset_percent = 0.1 : the limit price is current * (1 -+ 1/OffsetDen)
OffsetDen == 1000

NoTwapArgs ==
    [op |-> NoStr, symbol |-> NoSymbol, side |-> NoStr, total_quantity |-> NoneNum,
     chunks |-> NoneNum, interval_seconds |-> NoneNum, use_limit |-> FALSE]

NoTwapLocals ==
    [err |-> NoStr, chunks |-> 0, interval_seconds |-> 0, chunk_size |-> 0, i |-> 0,
     executed_orders |-> <<>>, targets |-> <<>>, summary |-> [kind |-> "None"]]

List(orders) == [kind |-> "list", orders |-> orders]

\* x or default
OrDefault(x, default) == IF x = NoneNum \/ x = 0 THEN default ELSE x

RECURSIVE SumExecutedQty(_)
SumExecutedQty(orders) ==
    IF orders = <<>> THEN 0
    ELSE orders[1].executedQty + SumExecutedQty(Tail(orders))

\* sum(order.get('executedQty', 0) ...) adds the values as they are: it raises
\* TypeError when the exchange delivers them as strings
SumRaisesTypeError(orders) == \E k \in 1..Len(orders) : orders[k].qtyIsStr

\* "Adjust last chunk to account for rounding"
TwapLastChunkSize(total_quantity, executed_orders) ==
    FormatQuantity(total_quantity - SumExecutedQty(executed_orders))

TwapLimitPrice(side, current_price) ==
    IF Upper(side) = "BUY"
      THEN RoundDivHalfEven(current_price * (OffsetDen - 1), OffsetDen, PriceUnit)
      ELSE RoundDivHalfEven(current_price * (OffsetDen + 1), OffsetDen, PriceUnit)

\* except Exception: return executed_orders if executed_orders else None
TwapOnException(executed_orders) ==
    IF executed_orders # <<>> THEN List(executed_orders) ELSE None

TwapValidation(a, chunks, interval_seconds) ==
    IF ~ ValidateTwapParameters(a.total_quantity, chunks, interval_seconds)
      THEN "Invalid TWAP parameters"
    ELSE IF ~ ValidateSymbol(a.symbol) THEN "Invalid symbol"
    ELSE IF ~ ValidateSide(a.side) THEN "Invalid side"
    ELSE NoStr

\* An order's 'avgPrice' entry is [form, value]: a string, a number, or
\* absent from the response.
HasAvgPrice(order) == "avgPrice" \in DOMAIN order /\ order.avgPrice.form # "absent"

\* float(order.get('avgPrice', 0))
AvgPrice(order) == IF HasAvgPrice(order) THEN order.avgPrice.value ELSE 0

\* "if order.get('avgPrice')": a non-empty string or a non-zero number
AvgPriceTruthy(order) ==
    HasAvgPrice(order) /\ (order.avgPrice.form = "str" \/ order.avgPrice.value # 0)

\* total_value of _calculate_average_price: the sum of qty * price
RECURSIVE SumValue(_)
SumValue(orders) ==
    IF orders = <<>> THEN 0
    ELSE orders[1].executedQty * AvgPrice(orders[1]) + SumValue(Tail(orders))

\* Fractions num / den with den > 0 stand for the unrounded quotients.
Frac(num, den) == [num |-> num, den |-> den]

\* A variant of AveragePrice that ignores the quantities.
AveragePriceUnweighted(orders) ==
    IF SumExecutedQty(orders) > 0
      THEN Frac(SumValue([k \in 1..Len(orders) |->
                            [orders[k] EXCEPT !.executedQty = 1]]), Len(orders))
      ELSE Frac(0, 1)

\* _calculate_average_price
AveragePrice(orders) ==
    IF SumExecutedQty(orders) > 0
      THEN Frac(SumValue(orders), SumExecutedQty(orders))
      ELSE Frac(0, 1)

SetMin(S) == CHOOSE x \in S : \A y \in S : x <= y
SetMax(S) == CHOOSE x \in S : \A y \in S : x >= y

\* get_twap_summary
TwapSummary(orders) ==
    IF orders = <<>> THEN [kind |-> "empty"]
    ELSE LET total_qty == SumExecutedQty(orders)
             avg_price == AveragePrice(orders)
             prices    == {AvgPrice(orders[k]) :
                             k \in {j \in 1..Len(orders) : AvgPriceTruthy(orders[j])}}
             min_price == IF prices # {} THEN SetMin(prices) ELSE 0
             max_price == IF prices # {} THEN SetMax(prices) ELSE 0
         IN  [kind |-> "summary", total_orders |-> Len(orders),
              total_quantity |-> total_qty,
              average_price |-> avg_price,
              min_price |-> min_price,
              max_price |-> max_price,
              price_range |-> max_price - min_price,
              total_value |-> Frac(total_qty * avg_price.num, avg_price.den)]

Sleep(seconds) == [NoCall EXCEPT !.call = "sleep", !.seconds = seconds]

Ticker(symbol, t) ==
    [NoCall EXCEPT !.call = "ticker", !.symbol = symbol, !.price = t,
                   !.outcome = IF t = NoneNum THEN "error" ELSE "ok"]

\* The scheduler's state as one value: position, locals, calls, exchange
\* and return value.
TwapState(p, l, c, e, r) == [pc |-> p, loc |-> l, calls |-> c, exch |-> e, ret |-> r]

\* An exception inside the loop: "except Exception" ends the run.
TwapRaise(st, reason) ==
    [st EXCEPT !.pc = "done", !.ret = TwapOnException(st.loc.executed_orders),
               !.loc.err = reason]

\* "if i < chunks - 1: sleep(interval_seconds)"
TwapNap(l) == IF l.i < l.chunks - 1 THEN <<Sleep(l.interval_seconds)>> ELSE <<>>

\* place_market_order for one chunk, bookkeeping and the wait that follows
TwapMarketPlacement(st, a, size, o) ==
    LET r == PlaceMarketOrder(st.exch, a.symbol, a.side, size, FALSE, o)
    IN  [st EXCEPT
           !.calls = @ \o r.calls \o TwapNap(st.loc),
           !.exch = r.exch,
           !.loc = [@ EXCEPT
                      !.chunk_size = size,
                      !.targets = Append(@, size),
                      !.executed_orders =
                          IF Truthy(r.ret) THEN Append(@, r.ret.order) ELSE @,
                      !.i = @ + 1]]

InitTWAP ==
    /\ pc = "idle"
    /\ args = NoTwapArgs
    /\ loc = NoTwapLocals
    /\ calls = <<>>
    /\ exch \in {[orders |-> <<>>, strQty |-> b] : b \in BOOLEAN}
    /\ ret = None

\* execute_twap_order up to the loop
TwapInvoke ==
    /\ pc = "idle"
    /\ \E symbol \in TwapSymbols, side \in Sides, total_quantity \in TwapQuantities,
          chunks \in TwapChunkCounts, interval_seconds \in TwapIntervals,
          use_limit \in BOOLEAN :
         LET a == [NoTwapArgs EXCEPT !.op = "execute_twap_order", !.symbol = symbol,
                                     !.side = side, !.total_quantity = total_quantity,
                                     !.chunks = chunks,
                                     !.interval_seconds = interval_seconds,
                                     !.use_limit = use_limit]
             n == OrDefault(chunks, DefaultChunks)
             t == OrDefault(interval_seconds, DefaultInterval)
             e == TwapValidation(a, n, t)
         IN  /\ args' = a
             /\ loc' = [NoTwapLocals EXCEPT
                          !.err = e, !.chunks = n, !.interval_seconds = t,
                          !.chunk_size = IF e = NoStr
                                           THEN RoundDivHalfEven(total_quantity, n, QtyUnit)
                                           ELSE 0]
             /\ pc' = IF e = NoStr THEN "loop" ELSE "done"
    /\ ret' = None
    /\ calls' = <<>>
    /\ UNCHANGED exch

\* One iteration of "for i in range(chunks)"
TwapChunk ==
    /\ pc = "loop"
    /\ loc.i < loc.chunks
    /\ UNCHANGED args
    /\ LET last == loc.i = loc.chunks - 1
           size == IF last THEN TwapLastChunkSize(args.total_quantity, loc.executed_orders)
                           ELSE loc.chunk_size
           nap  == TwapNap(loc)
           st   == TwapState(pc, loc, calls, exch, ret)
       IN  IF last /\ SumRaisesTypeError(loc.executed_orders)
             THEN LET n == TwapRaise(st, "TypeError")
                  IN  /\ pc' = n.pc
                      /\ ret' = n.ret
                      /\ loc' = n.loc
                      /\ UNCHANGED <<calls, exch>>
           ELSE IF args.use_limit
             THEN \E t \in TickerOutcomes :
                    IF t = NoneNum
                      THEN /\ pc' = "done"
                           /\ ret' = TwapOnException(loc.executed_orders)
                           /\ loc' = [loc EXCEPT !.err = "ticker", !.chunk_size = size]
                           /\ calls' = Append(calls, Ticker(args.symbol, t))
                           /\ UNCHANGED exch
                      ELSE LET price == TwapLimitPrice(args.side, t)
                           IN  \E o \in CreateOutcomes(LimitRequest(args.symbol, args.side,
                                                         size, price, "IOC", FALSE, FALSE)) :
                                 LET r == PlaceLimitOrder(exch, args.symbol, args.side, size,
                                                          price, "IOC", FALSE, FALSE, o)
                                 IN  /\ calls' = Append(calls, Ticker(args.symbol, t))
                                                   \o r.calls \o nap
                                     /\ exch' = r.exch
                                     /\ loc' = [loc EXCEPT
                                          !.chunk_size = size,
                                          !.targets = Append(@, size),
                                          !.executed_orders =
                                              IF Truthy(r.ret) THEN Append(@, r.ret.order) ELSE @,
                                          !.i = @ + 1]
                                     /\ UNCHANGED <<pc, ret>>
           ELSE \E o \in CreateOutcomes(MarketRequest(args.symbol, args.side, size, FALSE)) :
                  LET n == TwapMarketPlacement(st, args, size, o)
                  IN  /\ calls' = n.calls
                      /\ exch' = n.exch
                      /\ loc' = n.loc
                      /\ UNCHANGED <<pc, ret>>

\* After the loop: "return executed_orders"
TwapReturn ==
    /\ pc = "loop"
    /\ loc.i = loc.chunks
    /\ pc' = "done"
    /\ ret' = List(loc.executed_orders)
    /\ UNCHANGED <<args, loc, calls, exch>>

\* The caller: "if orders: summary = get_twap_summary(orders)"
GetTwapSummary ==
    /\ pc = "done"
    /\ ret.kind = "list"
    /\ ret.orders # <<>>
    /\ loc' = [loc EXCEPT !.summary = TwapSummary(ret.orders)]
    /\ pc' = "summarized"
    /\ UNCHANGED <<args, calls, exch, ret>>

NextTWAP ==
    \/ TwapInvoke
    \/ TwapChunk
    \/ TwapReturn
    \/ GetTwapSummary

SpecTWAP == InitTWAP /\ [][NextTWAP]_vars

----------------------------------------------------------------------------
(* Claims about the TWAP scheduler.                                        *)

RECURSIVE SumSeq(_)
SumSeq(q) == IF q = <<>> THEN 0 ELSE q[1] + SumSeq(Tail(q))

RECURSIVE SuccessfulResponses(_)
SuccessfulResponses(cs) ==
    IF cs = <<>> THEN <<>>
    ELSE IF cs[1].call = "create" /\ cs[1].outcome = "ok"
      THEN <<cs[1].resp>> \o SuccessfulResponses(Tail(cs))
      ELSE SuccessfulResponses(Tail(cs))

Abs(x) == IF x < 0 THEN -x ELSE x

TwapEnded == args.op = "execute_twap_order" /\ pc \in {"done", "summarized"}

TwapRequestValid ==
    loc.err \notin {"Invalid TWAP parameters", "Invalid symbol", "Invalid side"}

\* C9: for every valid TWAP plan and every pattern of per-chunk outcomes, the
\* target sizes passed to the placement call for chunks 0..N-1 sum to the
\* total quantity to within one quantity-precision unit.
C9_ChunkTargetsSumToTotal ==
    (TwapEnded /\ TwapRequestValid /\ Len(loc.targets) = loc.chunks)
    => Abs(SumSeq(loc.targets) - args.total_quantity) <= QtyUnit

\* C10: a valid TWAP request with N chunks attempts exactly N placements
\* however many of them return no result; the returned list holds exactly
\* the successful responses in chunk order, and get_twap_summary reports
\* their number as total_orders.  Stated for market-order requests (the
\* default), where no ticker call can interfere.
C10_EveryChunkIsAttempted ==
    (TwapEnded /\ TwapRequestValid /\ ~ args.use_limit)
    =>
    /\ Len(loc.targets) = loc.chunks
    /\ ret = List(SuccessfulResponses(calls))
    /\ pc = "summarized" =>
         /\ loc.summary.kind = "summary"
         /\ loc.summary.total_orders = Len(SuccessfulResponses(calls))

IsSleep(c) == c.call = "sleep"

SleepCount(cs) == Cardinality({k \in 1..Len(cs) : IsSleep(cs[k])})

SleepBetweenPlacements(cs) ==
    \A i, j \in 1..Len(cs) :
        (i < j /\ cs[i].call = "create" /\ cs[j].call = "create")
        => \E k \in (i+1)..(j-1) : IsSleep(cs[k])

\* C11: execute_twap_order with N chunks suspends exactly once after each
\* non-final chunk attempt and before the next one: N-1 suspensions in
\* total, each of the configured interval, and no two placements without a
\* suspension between them.
C11_OneSuspensionBetweenChunks ==
    (TwapEnded /\ TwapRequestValid)
    =>
    /\ SleepCount(calls) = loc.chunks - 1
    /\ \A k \in 1..Len(calls) :
           IsSleep(calls[k]) => calls[k].seconds = loc.interval_seconds
    /\ SleepBetweenPlacements(calls)

----------------------------------------------------------------------------
(* execute_twap_order (market orders) and execute_twap_order_async run     *)
(* side by side on the same arguments against exchanges that behave alike. *)
(* Here every variable is a pair [sync |-> ..., async |-> ...] of what it  *)
(* is in a single run; args is shared.                                     *)

\* How the exchange treats the next order it receives.
ExchangeBehaviours == {"rejected", "error", "new", "filled", "partial"}

\* The outcome of futures_create_order for request req under behaviour b.
OutcomeOf(b, req) ==
    CASE b = "rejected" -> [outcome |-> "rejected", status |-> NoStr, executedQty |-> 0]
      [] b = "error"    -> [outcome |-> "error", status |-> NoStr, executedQty |-> 0]
      [] b = "new"      -> [outcome |-> "ok", status |-> "NEW", executedQty |-> 0]
      [] b = "partial" /\ req.quantity > QtyUnit
                        -> [outcome |-> "ok", status |-> "PARTIALLY_FILLED",
                            executedQty |-> QtyUnit]
      [] OTHER          -> [outcome |-> "ok", status |-> "FILLED",
                            executedQty |-> req.quantity]

\* execute_twap_order_async validates the TWAP parameters only.
TwapAsyncValidation(a, chunks, interval_seconds) ==
    IF ~ ValidateTwapParameters(a.total_quantity, chunks, interval_seconds)
      THEN "Invalid TWAP parameters"
      ELSE NoStr

\* The state on entering the loop, or on returning None after validation.
TwapStart(a, e, ex) ==
    LET n == OrDefault(a.chunks, DefaultChunks)
        t == OrDefault(a.interval_seconds, DefaultInterval)
    IN  TwapState(IF e = NoStr THEN "loop" ELSE "done",
                  [NoTwapLocals EXCEPT
                     !.err = e, !.chunks = n, !.interval_seconds = t,
                     !.chunk_size = IF e = NoStr
                                      THEN RoundDivHalfEven(a.total_quantity, n, QtyUnit)
                                      ELSE 0],
                  <<>>, ex, None)

\* "return executed_orders" after the loop
TwapFinish(st) == [st EXCEPT !.pc = "done", !.ret = List(st.loc.executed_orders)]

\* One step of execute_twap_order with market orders under behaviour b.
TwapSyncStep(st, a, b) ==
    IF st.pc # "loop" THEN st
    ELSE IF st.loc.i = st.loc.chunks THEN TwapFinish(st)
    ELSE LET last == st.loc.i = st.loc.chunks - 1
             size == IF last THEN TwapLastChunkSize(a.total_quantity, st.loc.executed_orders)
                             ELSE st.loc.chunk_size
         IN  IF last /\ SumRaisesTypeError(st.loc.executed_orders)
               THEN TwapRaise(st, "TypeError")
               ELSE TwapMarketPlacement(st, a, size,
                        OutcomeOf(b, MarketRequest(a.symbol, a.side, size, FALSE)))

\* One step of execute_twap_order_async under behaviour b:
\* sum(float(order.get('executedQty', 0)) ...) accepts strings.
TwapAsyncStep(st, a, b) ==
    IF st.pc # "loop" THEN st
    ELSE IF st.loc.i = st.loc.chunks THEN TwapFinish(st)
    ELSE LET last == st.loc.i = st.loc.chunks - 1
             size == IF last THEN TwapLastChunkSize(a.total_quantity, st.loc.executed_orders)
                             ELSE st.loc.chunk_size
         IN  TwapMarketPlacement(st, a, size,
                 OutcomeOf(b, MarketRequest(a.symbol, a.side, size, FALSE)))

Both(x) == [sync |-> x, async |-> x]

Side(who) == TwapState(pc[who], loc[who], calls[who], exch[who], ret[who])

InitTwapBoth ==
    /\ pc = Both("idle")
    /\ args = NoTwapArgs
    /\ loc = Both(NoTwapLocals)
    /\ calls = Both(<<>>)
    /\ exch \in {Both([orders |-> <<>>, strQty |-> b]) : b \in BOOLEAN}
    /\ ret = Both(None)

SetBoth(s, a) ==
    /\ pc' = [sync |-> s.pc, async |-> a.pc]
    /\ loc' = [sync |-> s.loc, async |-> a.loc]
    /\ calls' = [sync |-> s.calls, async |-> a.calls]
    /\ exch' = [sync |-> s.exch, async |-> a.exch]
    /\ ret' = [sync |-> s.ret, async |-> a.ret]

\* Both variants are invoked with the same arguments.
TwapBothInvoke ==
    /\ pc = Both("idle")
    /\ \E symbol \in TwapSymbols, side \in Sides, total_quantity \in TwapQuantities,
          chunks \in TwapChunkCounts, interval_seconds \in TwapIntervals :
         LET a == [NoTwapArgs EXCEPT !.op = "execute_twap_order", !.symbol = symbol,
                                     !.side = side, !.total_quantity = total_quantity,
                                     !.chunks = chunks,
                                     !.interval_seconds = interval_seconds]
             n == OrDefault(chunks, DefaultChunks)
             t == OrDefault(interval_seconds, DefaultInterval)
         IN  /\ args' = a
             /\ SetBoth(TwapStart(a, TwapValidation(a, n, t), exch.sync),
                        TwapStart(a, TwapAsyncValidation(a, n, t), exch.async))

\* Both variants take their next step; the exchange treats both alike.
TwapBothStep ==
    /\ pc.sync = "loop" \/ pc.async = "loop"
    /\ \E b \in ExchangeBehaviours :
         SetBoth(TwapSyncStep(Side("sync"), args, b), TwapAsyncStep(Side("async"), args, b))
    /\ UNCHANGED args

NextTwapBoth ==
    \/ TwapBothInvoke
    \/ TwapBothStep

SpecTwapBoth == InitTwapBoth /\ [][NextTwapBoth]_vars

TwapBothEnded == pc = Both("done") /\ args.op = "execute_twap_order"

\* C12: on the same inputs and the same exchange responses,
\* execute_twap_order_async issues the same sequence of exchange calls and
\* suspensions and returns the same value as execute_twap_order with
\* market orders.
C12_AsyncBehavesAsSync ==
    TwapBothEnded => (calls.async = calls.sync /\ ret.async = ret.sync)

----------------------------------------------------------------------------
(* GridTradingExecutor.  lower + i * grid_spacing is computed on the exact *)
(* value (lower * (levels - 1) + i * (upper - lower)) / (levels - 1).      *)

MaxLevels == 4

DefaultGridLevels == 10

\* min_grid_spacing_percent = 0.5 and max_grid_spacing_percent = 5.0, in
\* thousandths of the lower price
MinSpacing == 5
MaxSpacing == 50
SpacingDen == 1000

\* 0, 0.01, 45 and 50 USDT
GridLowerPrices == {0, 10, 45000, 50000}

\* 0.02, 45, 45.2, 50 and 55 USDT
GridUpperPrices == {20, 45000, 45200, 50000, 55000}

\* None, 1 .. MaxLevels, 101
GridLevelCounts == {NoneNum, 1, 101} \cup (2..MaxLevels)

\* 0, 1 and 1.0004 coins
GridQuantities == {0, 10000, 10004}

GridModes == {"neutral", "long", "short", "NEUTRAL"}

\* futures_symbol_ticker: 47 or 50 USDT, or an exception
GridTickerOutcomes == {47000, 50000, NoneNum}

NoGridArgs ==
    [op |-> NoStr, symbol |-> NoSymbol, lower_price |-> NoneNum, upper_price |-> NoneNum,
     total_quantity |-> NoneNum, grid_levels |-> NoneNum, mode |-> NoStr]

NoGridLocals ==
    [err |-> NoStr, grid_levels |-> 0, qty_per_level |-> 0, grid_prices |-> <<>>,
     current_price |-> NoneNum, k |-> 0, buy_orders |-> <<>>, sell_orders |-> <<>>,
     attempts |-> <<>>, grid_config |-> None, refills |-> <<>>,
     rounds |-> 0, history |-> <<>>]

\* validate_grid_parameters
ValidateGridParameters(lower_price, upper_price, grid_levels) ==
    /\ ValidatePrice(lower_price)
    /\ ValidatePrice(upper_price)
    /\ ~ (upper_price <= lower_price)
    /\ ~ (grid_levels < 2)
    /\ ~ (grid_levels > 100)

\* spacing_percent < self.min_spacing
SpacingBelowMin(lower_price, upper_price, grid_levels) ==
    (upper_price - lower_price) * SpacingDen < MinSpacing * (grid_levels - 1) * lower_price

\* spacing_percent > self.max_spacing
SpacingAboveMax(lower_price, upper_price, grid_levels) ==
    (upper_price - lower_price) * SpacingDen > MaxSpacing * (grid_levels - 1) * lower_price

\* A variant of GridValidation that also rejects a spacing above the maximum.
GridValidationRejectsAboveMax(a, grid_levels) ==
    IF ~ ValidateGridParameters(a.lower_price, a.upper_price, grid_levels)
      THEN "Invalid grid parameters"
    ELSE IF ~ ValidateSymbol(a.symbol) THEN "Invalid symbol"
    ELSE IF SpacingBelowMin(a.lower_price, a.upper_price, grid_levels)
            \/ SpacingAboveMax(a.lower_price, a.upper_price, grid_levels)
      THEN "Grid spacing below minimum"
    ELSE NoStr

GridValidation(a, grid_levels) ==
    IF ~ ValidateGridParameters(a.lower_price, a.upper_price, grid_levels)
      THEN "Invalid grid parameters"
    ELSE IF ~ ValidateSymbol(a.symbol) THEN "Invalid symbol"
    ELSE IF SpacingBelowMin(a.lower_price, a.upper_price, grid_levels)
      THEN "Grid spacing below minimum"
    ELSE NoStr

\* price = format_price(lower_price + i * grid_spacing)
GridPrice(lower_price, upper_price, grid_levels, i) ==
    RoundDivHalfEven(lower_price * (grid_levels - 1) + i * (upper_price - lower_price),
                     grid_levels - 1, PriceUnit)

GridPrices(lower_price, upper_price, grid_levels) ==
    [n \in 1..grid_levels |-> GridPrice(lower_price, upper_price, grid_levels, n - 1)]

\* A variant of GridSide whose neutral mode buys at the current price too.
GridSideNeutralInclusive(mode, price, current_price) ==
    CASE mode = "neutral" /\ price <= current_price -> "BUY"
      [] mode = "neutral" /\ price > current_price  -> "SELL"
      [] mode = "long"    /\ price <= current_price -> "BUY"
      [] mode = "short"   /\ price >= current_price -> "SELL"
      [] OTHER -> NoStr

\* A variant of GridSide whose long mode skips the level at the current price.
GridSideLongExclusive(mode, price, current_price) ==
    CASE mode = "neutral" /\ price < current_price  -> "BUY"
      [] mode = "neutral" /\ price > current_price  -> "SELL"
      [] mode = "long"    /\ price < current_price  -> "BUY"
      [] mode = "short"   /\ price >= current_price -> "SELL"
      [] OTHER -> NoStr

\* The side of the order create_grid_orders places at a level, if any.
GridSide(mode, price, current_price) ==
    CASE mode = "neutral" /\ price < current_price  -> "BUY"
      [] mode = "neutral" /\ price > current_price  -> "SELL"
      [] mode = "long"    /\ price <= current_price -> "BUY"
      [] mode = "short"   /\ price >= current_price -> "SELL"
      [] OTHER -> NoStr

\* A maker-only order rests on the book or is refused by the exchange.
GridCreateOutcomes(req) ==
    {o \in CreateOutcomes(req) : o.outcome = "rejected" \/ o.status = "NEW"}

\* The order dict the exchange returns for a limit order echoes its price
\* and quantity.
GridOrder(resp, req) ==
    [orderId |-> resp.orderId, price |-> req.price, origQty |-> req.quantity]

\* The dict create_grid_orders returns.
GridConfig(a, l) ==
    [kind |-> "grid", symbol |-> a.symbol, mode |-> a.mode, grid_levels |-> l.grid_levels,
     lower_price |-> a.lower_price, upper_price |-> a.upper_price,
     current_price |-> l.current_price, grid_prices |-> l.grid_prices,
     buy_orders |-> l.buy_orders, sell_orders |-> l.sell_orders,
     total_orders |-> Len(l.buy_orders) + Len(l.sell_orders)]

InitGrid ==
    /\ pc = "idle"
    /\ args = NoGridArgs
    /\ loc = NoGridLocals
    /\ calls = <<>>
    /\ exch = [orders |-> <<>>, strQty |-> TRUE]
    /\ ret = None

\* create_grid_orders up to the ticker request
GridInvoke ==
    /\ pc = "idle"
    /\ \E symbol \in TwapSymbols, lower_price \in GridLowerPrices,
          upper_price \in GridUpperPrices, total_quantity \in GridQuantities,
          grid_levels \in GridLevelCounts, mode \in GridModes :
         LET a == [op |-> "create_grid_orders", symbol |-> symbol,
                   lower_price |-> lower_price, upper_price |-> upper_price,
                   total_quantity |-> total_quantity, grid_levels |-> grid_levels,
                   mode |-> mode]
             n == OrDefault(grid_levels, DefaultGridLevels)
             e == GridValidation(a, n)
         IN  /\ args' = a
             /\ loc' = IF e # NoStr
                         THEN [NoGridLocals EXCEPT !.err = e, !.grid_levels = n]
                         ELSE [NoGridLocals EXCEPT
                                 !.grid_levels = n,
                                 !.qty_per_level = RoundDivHalfEven(total_quantity, n, QtyUnit),
                                 !.grid_prices = GridPrices(lower_price, upper_price, n)]
             /\ pc' = IF e = NoStr THEN "ticker" ELSE "done"
    /\ ret' = None
    /\ calls' = <<>>
    /\ UNCHANGED exch

\* "Get current price"
GridTicker ==
    /\ pc = "ticker"
    /\ \E t \in GridTickerOutcomes :
         /\ calls' = Append(calls, Ticker(args.symbol, t))
         /\ IF t = NoneNum
              THEN /\ pc' = "done"
                   /\ loc' = [loc EXCEPT !.err = "ticker"]
              ELSE /\ pc' = "levels"
                   /\ loc' = [loc EXCEPT !.current_price = t]
    /\ UNCHANGED <<args, exch, ret>>

\* A variant of GridLevel that leaves the loop at the first level whose
\* placement returns no result.
GridLevelStopsAtFailure ==
    /\ pc = "levels"
    /\ loc.k < Len(loc.grid_prices)
    /\ LET price == loc.grid_prices[loc.k + 1]
           side  == GridSide(args.mode, price, loc.current_price)
       IN  IF side = NoStr
             THEN /\ loc' = [loc EXCEPT !.k = @ + 1]
                  /\ UNCHANGED <<calls, exch>>
             ELSE LET req == LimitRequest(args.symbol, side, loc.qty_per_level, price,
                                          "GTC", FALSE, TRUE)
                  IN  \E o \in GridCreateOutcomes(req) :
                        LET r == PlaceLimitOrder(exch, args.symbol, side, loc.qty_per_level,
                                                 price, "GTC", FALSE, TRUE, o)
                            placed == IF Truthy(r.ret)
                                        THEN <<GridOrder(r.ret.order, req)>> ELSE <<>>
                        IN  /\ calls' = calls \o r.calls
                            /\ exch' = r.exch
                            /\ loc' = [loc EXCEPT
                                 !.k = IF Truthy(r.ret) THEN @ + 1 ELSE Len(loc.grid_prices),
                                 !.attempts = Append(@, [side |-> side, price |-> price,
                                                         quantity |-> loc.qty_per_level]),
                                 !.buy_orders = IF side = "BUY" THEN @ \o placed ELSE @,
                                 !.sell_orders = IF side = "SELL" THEN @ \o placed ELSE @]
    /\ UNCHANGED <<pc, args, ret>>

\* One iteration of "for price in grid_prices"
GridLevel ==
    /\ pc = "levels"
    /\ loc.k < Len(loc.grid_prices)
    /\ LET price == loc.grid_prices[loc.k + 1]
           side  == GridSide(args.mode, price, loc.current_price)
       IN  IF side = NoStr
             THEN /\ loc' = [loc EXCEPT !.k = @ + 1]
                  /\ UNCHANGED <<calls, exch>>
             ELSE LET req == LimitRequest(args.symbol, side, loc.qty_per_level, price,
                                          "GTC", FALSE, TRUE)
                  IN  \E o \in GridCreateOutcomes(req) :
                        LET r == PlaceLimitOrder(exch, args.symbol, side, loc.qty_per_level,
                                                 price, "GTC", FALSE, TRUE, o)
                            placed == IF Truthy(r.ret)
                                        THEN <<GridOrder(r.ret.order, req)>> ELSE <<>>
                        IN  /\ calls' = calls \o r.calls
                            /\ exch' = r.exch
                            /\ loc' = [loc EXCEPT
                                 !.k = @ + 1,
                                 !.attempts = Append(@, [side |-> side, price |-> price,
                                                         quantity |-> loc.qty_per_level]),
                                 !.buy_orders = IF side = "BUY" THEN @ \o placed ELSE @,
                                 !.sell_orders = IF side = "SELL" THEN @ \o placed ELSE @]
    /\ UNCHANGED <<pc, args, ret>>

\* After the loop: return the grid dict
GridReturn ==
    /\ pc = "levels"
    /\ loc.k = Len(loc.grid_prices)
    /\ pc' = "done"
    /\ ret' = GridConfig(args, loc)
    /\ UNCHANGED <<args, loc, calls, exch>>

\* Grids of at most this many orders are filled and monitored.
MaxMonitored == 3

Bool(v) == [kind |-> "bool", value |-> v]

\* The market fills a resting order of the grid.
GridFill ==
    /\ pc = "done"
    /\ ret.kind = "grid"
    /\ ret.total_orders <= MaxMonitored
    /\ \E id \in Resting(exch) : exch' = [exch EXCEPT !.orders[id] = "FILLED"]
    /\ UNCHANGED <<pc, args, loc, calls, ret>>

\* monitor_and_refill_grid(symbol, grid_config) on the dict
\* create_grid_orders returned
MonitorGridInvoke ==
    /\ pc = "done"
    /\ args.op = "create_grid_orders"
    /\ ret.kind = "grid"
    /\ ret.total_orders <= MaxMonitored
    /\ args' = [args EXCEPT !.op = "monitor_and_refill_grid"]
    /\ loc' = [loc EXCEPT !.grid_config = ret, !.k = 0, !.refills = <<>>,
                          !.rounds = 1, !.history = <<>>]
    /\ pc' = "check_buys"
    /\ calls' = <<>>
    /\ ret' = None
    /\ UNCHANGED exch

\* A variant of RefillPrice that moves two grid spacings.
RefillPriceTwoSpacings(config, price, sign) ==
    RoundDivHalfEven(price * (config.grid_levels - 1)
                       + 2 * sign * (config.upper_price - config.lower_price),
                     config.grid_levels - 1, PriceUnit)

\* format_price(float(order['price']) +- grid_spacing)
RefillPrice(config, price, sign) ==
    RoundDivHalfEven(price * (config.grid_levels - 1)
                       + sign * (config.upper_price - config.lower_price),
                     config.grid_levels - 1, PriceUnit)

\* The body of "for order in buy_orders" / "for order in sell_orders":
\* query the order and, if it is FILLED and the mode is neutral, place the
\* opposite order one grid spacing away.
MonitorGridCheck(order, side, sign) ==
    \E out \in {"ok", "error"} :
      LET g == GetOrderStatus(exch, args.symbol, order.orderId, out)
          config == loc.grid_config
      IN  IF Truthy(g.ret) /\ g.ret.order.status = "FILLED" /\ config.mode = "neutral"
            THEN LET price == RefillPrice(config, order.price, sign)
                     req == LimitRequest(args.symbol, side, order.origQty, price,
                                         "GTC", FALSE, TRUE)
                 IN  \E o \in GridCreateOutcomes(req) :
                       LET r == PlaceLimitOrder(g.exch, args.symbol, side, order.origQty,
                                                price, "GTC", FALSE, TRUE, o)
                       IN  /\ calls' = calls \o g.calls \o r.calls
                           /\ exch' = r.exch
                           /\ loc' = [loc EXCEPT
                                !.k = @ + 1,
                                !.refills = Append(@, [side |-> side, price |-> price,
                                                       quantity |-> order.origQty,
                                                       orderId |-> order.orderId,
                                                       placed |-> Truthy(r.ret)])]
            ELSE /\ calls' = calls \o g.calls
                 /\ exch' = g.exch
                 /\ loc' = [loc EXCEPT !.k = @ + 1]

\* "Check buy orders"
MonitorGridCheckBuy ==
    /\ pc = "check_buys"
    /\ loc.k < Len(loc.grid_config.buy_orders)
    /\ MonitorGridCheck(loc.grid_config.buy_orders[loc.k + 1], "SELL", 1)
    /\ UNCHANGED <<pc, args, ret>>

MonitorGridBuysChecked ==
    /\ pc = "check_buys"
    /\ loc.k = Len(loc.grid_config.buy_orders)
    /\ pc' = "check_sells"
    /\ loc' = [loc EXCEPT !.k = 0]
    /\ UNCHANGED <<args, calls, exch, ret>>

\* "Check sell orders"
MonitorGridCheckSell ==
    /\ pc = "check_sells"
    /\ loc.k < Len(loc.grid_config.sell_orders)
    /\ MonitorGridCheck(loc.grid_config.sell_orders[loc.k + 1], "BUY", -1)
    /\ UNCHANGED <<pc, args, ret>>

\* "return True"
MonitorGridReturn ==
    /\ pc = "check_sells"
    /\ loc.k = Len(loc.grid_config.sell_orders)
    /\ pc' = "monitored"
    /\ ret' = Bool(TRUE)
    /\ loc' = [loc EXCEPT !.history = @ \o loc.refills]
    /\ UNCHANGED <<args, calls, exch>>

\* The same grid is monitored at most this many times.
MaxRounds == 2

\* monitor_and_refill_grid is called again with the same grid_config
\* (grids smaller than MaxMonitored only).
MonitorGridAgain ==
    /\ pc = "monitored"
    /\ loc.rounds < MaxRounds
    /\ loc.grid_config.total_orders < MaxMonitored
    /\ pc' = "check_buys"
    /\ loc' = [loc EXCEPT !.k = 0, !.refills = <<>>, !.rounds = @ + 1]
    /\ calls' = <<>>
    /\ ret' = None
    /\ UNCHANGED <<args, exch>>

NextGrid ==
    \/ GridInvoke
    \/ GridTicker
    \/ GridLevel
    \/ GridReturn
    \/ GridFill
    \/ MonitorGridInvoke
    \/ MonitorGridCheckBuy
    \/ MonitorGridBuysChecked
    \/ MonitorGridCheckSell
    \/ MonitorGridReturn

SpecGrid == InitGrid /\ [][NextGrid]_vars

\* The grid builder with a caller that monitors the same grid repeatedly.
NextRegrid ==
    \/ GridInvoke
    \/ GridTicker
    \/ GridLevel
    \/ GridReturn
    \/ GridFill
    \/ MonitorGridInvoke
    \/ MonitorGridAgain
    \/ MonitorGridCheckBuy
    \/ MonitorGridBuysChecked
    \/ MonitorGridCheckSell
    \/ MonitorGridReturn

SpecRegrid == InitGrid /\ [][NextRegrid]_vars

----------------------------------------------------------------------------
(* Claims about the grid builder.                                          *)

GridAccepted ==
    /\ args.op = "create_grid_orders"
    /\ loc.err \notin {"Invalid grid parameters", "Invalid symbol",
                        "Grid spacing below minimum"}

StrictlyIncreasing(q) == \A i \in 1..(Len(q) - 1) : q[i] < q[i + 1]

\* C13: for every (lower, upper, levels) accepted by create_grid_orders the
\* generated grid_prices has exactly levels elements, is strictly
\* increasing after rounding to price precision, starts at lower and ends
\* at upper to within price precision.
C13_GridPricesStrictlyIncreasing ==
    GridAccepted
    =>
    /\ Len(loc.grid_prices) = loc.grid_levels
    /\ Abs(loc.grid_prices[1] - args.lower_price) <= PriceUnit
    /\ Abs(loc.grid_prices[loc.grid_levels] - args.upper_price) <= PriceUnit
    /\ StrictlyIncreasing(loc.grid_prices)

GridShapeValid ==
    /\ args.op = "create_grid_orders"
    /\ ValidateGridParameters(args.lower_price, args.upper_price, loc.grid_levels)

\* C14: a spacing percent below the configured minimum makes
\* create_grid_orders return no result without fetching the ticker or
\* placing an order; a spacing percent above the configured maximum is not
\* rejected: the call goes on to the ticker and to placement.
C14_SpacingBelowMinRejectsAboveMaxProceeds ==
    /\ (GridShapeValid
          /\ SpacingBelowMin(args.lower_price, args.upper_price, loc.grid_levels))
       => (pc = "done" /\ ret = None /\ calls = <<>>)
    /\ (GridShapeValid /\ ValidateSymbol(args.symbol)
          /\ SpacingAboveMax(args.lower_price, args.upper_price, loc.grid_levels))
       => /\ loc.err # "Grid spacing below minimum"
          /\ pc = "done" =>
               /\ calls # <<>>
               /\ calls[1].call = "ticker"
               /\ calls[1].outcome = "ok" => ret.kind = "grid"

\* A grid with spacing above the maximum was built and an order placed.
C14_Witness ==
    /\ GridShapeValid
    /\ SpacingAboveMax(args.lower_price, args.upper_price, loc.grid_levels)
    /\ pc = "done"
    /\ ret.kind = "grid"
    /\ ret.total_orders > 0

\* A grid with spacing below the minimum was refused.
C14_Witness_BelowMin ==
    /\ GridShapeValid
    /\ ValidateSymbol(args.symbol)
    /\ SpacingBelowMin(args.lower_price, args.upper_price, loc.grid_levels)
    /\ pc = "done"
    /\ ret = None

GridBuilt(mode) ==
    /\ args.op = "create_grid_orders"
    /\ args.mode = mode
    /\ pc = "done"
    /\ ret.kind = "grid"

GridCreates == SelectSeq(calls, LAMBDA c : c.call = "create")

\* Every exchange call for a grid level is a maker-only GTC limit order.
MakerOnlyLimits ==
    \A n \in 1..Len(GridCreates) :
        /\ GridCreates[n].type = "LIMIT"
        /\ GridCreates[n].postOnly
        /\ GridCreates[n].timeInForce = "GTC"

\* The attempts are exactly the levels in lv, in order, each on side(price).
AttemptsAre(lv, side(_)) ==
    /\ Len(loc.attempts) = Len(lv)
    /\ \A n \in 1..Len(lv) :
          /\ loc.attempts[n].price = lv[n]
          /\ loc.attempts[n].side = side(lv[n])
          /\ loc.attempts[n].quantity = loc.qty_per_level

\* C15: in mode 'neutral' a maker-only BUY limit is attempted for exactly
\* the grid levels strictly below the current price, a maker-only SELL limit
\* for exactly the levels strictly above it, and nothing for a level equal
\* to it; every BUY placed has price < current price < every SELL placed.
C15_NeutralBuysBelowSellsAbove ==
    GridBuilt("neutral")
    =>
    LET cur == loc.current_price
    IN  /\ AttemptsAre(SelectSeq(loc.grid_prices, LAMBDA p : p # cur),
                       LAMBDA p : IF p < cur THEN "BUY" ELSE "SELL")
        /\ MakerOnlyLimits
        /\ \A n \in 1..Len(GridCreates) :
              /\ GridCreates[n].side = "BUY" => GridCreates[n].price < cur
              /\ GridCreates[n].side = "SELL" => GridCreates[n].price > cur
        /\ \A n \in 1..Len(ret.buy_orders) : ret.buy_orders[n].price < cur
        /\ \A n \in 1..Len(ret.sell_orders) : ret.sell_orders[n].price > cur

\* A neutral grid with a BUY below, a SELL above and a skipped level at the
\* current price.
C15_Witness ==
    /\ GridBuilt("neutral")
    /\ \E n \in 1..Len(loc.grid_prices) : loc.grid_prices[n] = loc.current_price
    /\ ret.buy_orders # <<>>
    /\ ret.sell_orders # <<>>

\* C16: in mode 'long' only BUY limits are attempted, exactly at the grid
\* levels <= current price; in mode 'short' only SELL limits, exactly at
\* the levels >= current price; no order of the opposite side is placed.
C16_LongBuysShortSells ==
    LET cur == loc.current_price
    IN  /\ GridBuilt("long")
           => /\ AttemptsAre(SelectSeq(loc.grid_prices, LAMBDA p : p <= cur),
                             LAMBDA p : "BUY")
              /\ MakerOnlyLimits
              /\ \A n \in 1..Len(GridCreates) : GridCreates[n].side = "BUY"
              /\ ret.sell_orders = <<>>
        /\ GridBuilt("short")
           => /\ AttemptsAre(SelectSeq(loc.grid_prices, LAMBDA p : p >= cur),
                             LAMBDA p : "SELL")
              /\ MakerOnlyLimits
              /\ \A n \in 1..Len(GridCreates) : GridCreates[n].side = "SELL"
              /\ ret.buy_orders = <<>>

\* A long grid that bought at the level equal to the current price while
\* levels above it were left out.
C16_Witness ==
    /\ GridBuilt("long")
    /\ \E n \in 1..Len(ret.buy_orders) : ret.buy_orders[n].price = loc.current_price
    /\ Len(loc.attempts) < Len(loc.grid_prices)

\* A short grid that sold at the level equal to the current price.
C16_Witness_Short ==
    /\ GridBuilt("short")
    /\ \E n \in 1..Len(ret.sell_orders) : ret.sell_orders[n].price = loc.current_price
    /\ Len(loc.attempts) < Len(loc.grid_prices)

GridMonitored == args.op = "monitor_and_refill_grid" /\ pc = "monitored"

\* The status queries of this invocation that saw the order FILLED.
ObservedFilled ==
    SelectSeq(calls, LAMBDA c : c.call = "get_order" /\ c.resp.status = "FILLED")

GridOrderById(orders, id) == CHOOSE o \in {orders[n] : n \in 1..Len(orders)} : o.orderId = id

IsGridBuy(config, id) == \E n \in 1..Len(config.buy_orders) : config.buy_orders[n].orderId = id

\* p is price + sign * grid spacing, to within half a unit of price precision.
OneSpacingFrom(config, p, price, sign) ==
    2 * Abs(p * (config.grid_levels - 1)
              - (price * (config.grid_levels - 1)
                   + sign * (config.upper_price - config.lower_price)))
      <= PriceUnit * (config.grid_levels - 1)

\* C17: monitor_and_refill_grid in neutral mode places, for each buy order
\* of the grid observed FILLED, one maker-only SELL limit at that order's
\* price plus one grid spacing with the order's original quantity, and for
\* each sell order observed FILLED one maker-only BUY limit at its price
\* minus one grid spacing; for orders not observed FILLED, and in 'long'
\* or 'short' mode, it places nothing.
C17_RefillOppositeOneSpacingAway ==
    GridMonitored
    =>
    LET config == loc.grid_config
        obs == ObservedFilled
    IN  IF config.mode = "neutral"
          THEN /\ Len(loc.refills) = Len(obs)
               /\ \A n \in 1..Len(obs) :
                     LET id == obs[n].orderId
                         buy == IsGridBuy(config, id)
                         order == IF buy THEN GridOrderById(config.buy_orders, id)
                                         ELSE GridOrderById(config.sell_orders, id)
                         refill == loc.refills[n]
                     IN  /\ refill.orderId = id
                         /\ refill.side = IF buy THEN "SELL" ELSE "BUY"
                         /\ refill.quantity = order.origQty
                         /\ OneSpacingFrom(config, refill.price, order.price,
                                           IF buy THEN 1 ELSE -1)
               /\ Len(GridCreates) <= Len(obs)
               /\ MakerOnlyLimits
               /\ \A n \in 1..Len(GridCreates) :
                     \E m \in 1..Len(loc.refills) :
                        /\ GridCreates[n].side = loc.refills[m].side
                        /\ GridCreates[n].price = loc.refills[m].price
                        /\ GridCreates[n].quantity = loc.refills[m].quantity
          ELSE loc.refills = <<>> /\ GridCreates = <<>>

\* A neutral grid whose filled BUY and filled SELL were both refilled on
\* the exchange while another order was seen unfilled.
C17_Witness ==
    /\ GridMonitored
    /\ loc.grid_config.mode = "neutral"
    /\ \E n, m \in 1..Len(GridCreates) :
          GridCreates[n].side = "SELL" /\ GridCreates[m].side = "BUY"
             /\ GridCreates[n].outcome = "ok"
    /\ \E n \in 1..Len(calls) :
          calls[n].call = "get_order" /\ calls[n].resp.status = "NEW"

\* A long grid whose BUY was seen FILLED and nothing was placed.
C17_Witness_Long ==
    /\ GridMonitored
    /\ loc.grid_config.mode = "long"
    /\ ObservedFilled # <<>>

----------------------------------------------------------------------------
(* The whole engine: any one operation is invoked on a fresh engine, the   *)
(* monitors and cancel_grid follow the operation whose result they take.   *)

\* get_open_orders: one futures_get_open_orders call; [] on any exception
GetOpenOrders(ex, symbol, out) ==
    [calls |-> <<[NoCall EXCEPT !.call = "get_open_orders", !.symbol = symbol,
                                !.outcome = out]>>,
     exch  |-> ex,
     ret   |-> IF out = "ok"
                 THEN List([n \in 1..Cardinality(Resting(ex)) |-> n])
                 ELSE List(<<>>),
     log   |-> IF out = "ok" THEN <<>> ELSE <<ErrorTrace(out)>>]

\* cancel_all_orders: one futures_cancel_all_open_orders call; True, or
\* False on any exception
CancelAllOrders(ex, symbol, out) ==
    [calls |-> <<[NoCall EXCEPT !.call = "cancel_all", !.symbol = symbol,
                                !.outcome = out]>>,
     exch  |-> IF out = "ok"
                 THEN [ex EXCEPT !.orders =
                         [id \in 1..Len(ex.orders) |->
                            IF id \in Resting(ex) THEN "CANCELED" ELSE ex.orders[id]]]
                 ELSE ex,
     ret   |-> Bool(out = "ok"),
     log   |-> IF out = "ok" THEN <<>> ELSE <<ErrorTrace(out)>>]

\* Order ids the caller may pass to cancel_order / get_order_status
OrderIds == {1, 2}

DoCancelOrder ==
    /\ pc = "idle"
    /\ \E symbol \in Symbols, order_id \in OrderIds, out \in CallOutcomes :
         LET r == CancelOrder(exch, symbol, order_id, out)
         IN  Returned([NoArgs EXCEPT !.op = "cancel_order", !.symbol = symbol],
                      [r EXCEPT !.ret = Bool(r.ret)] @@ [err |-> NoStr])

DoGetOrderStatus ==
    /\ pc = "idle"
    /\ \E symbol \in Symbols, order_id \in OrderIds, out \in CallOutcomes :
         Returned([NoArgs EXCEPT !.op = "get_order_status", !.symbol = symbol],
                  GetOrderStatus(exch, symbol, order_id, out) @@ [err |-> NoStr])

DoGetOpenOrders ==
    /\ pc = "idle"
    /\ \E symbol \in Symbols, out \in CallOutcomes :
         Returned([NoArgs EXCEPT !.op = "get_open_orders", !.symbol = symbol],
                  GetOpenOrders(exch, symbol, out) @@ [err |-> NoStr])

DoCancelAllOrders ==
    /\ pc = "idle"
    /\ \E symbol \in Symbols, out \in CallOutcomes :
         Returned([NoArgs EXCEPT !.op = "cancel_all_orders", !.symbol = symbol],
                  CancelAllOrders(exch, symbol, out) @@ [err |-> NoStr])

\* cancel_grid(symbol, grid_config): "result = cancel_all_orders(symbol)"
CancelGrid ==
    /\ pc = "done"
    /\ args.op = "create_grid_orders"
    /\ ret.kind = "grid"
    /\ \E out \in CallOutcomes :
         LET r == CancelAllOrders(exch, args.symbol, out)
         IN  /\ calls' = r.calls
             /\ exch' = r.exch
             /\ ret' = r.ret
    /\ args' = [args EXCEPT !.op = "cancel_grid"]
    /\ pc' = "cancelled"
    /\ UNCHANGED loc

\* The market fills a resting leg of an OCO pair.
OcoFill ==
    /\ args.op = "place_oco_order"
    /\ ExchangeFill

NextEngine ==
    \/ DoPlaceMarketOrder
    \/ DoPlaceLimitOrder
    \/ DoPlaceStopLimitOrder
    \/ DoPlaceStopMarketOrder
    \/ DoPlaceTakeProfitOrder
    \/ DoCancelOrder
    \/ DoGetOrderStatus
    \/ DoGetOpenOrders
    \/ DoCancelAllOrders
    \/ OcoInvoke
    \/ OcoTakeProfit
    \/ OcoStopLoss
    \/ OcoCancel
    \/ OcoFill
    \/ MonitorInvoke
    \/ MonitorCheckTakeProfit
    \/ MonitorCancelStopLoss
    \/ MonitorCheckStopLoss
    \/ MonitorCancelTakeProfit
    \/ TwapInvoke
    \/ TwapChunk
    \/ TwapReturn
    \/ GridInvoke
    \/ GridTicker
    \/ GridLevel
    \/ GridReturn
    \/ GridFill
    \/ MonitorGridInvoke
    \/ MonitorGridCheckBuy
    \/ MonitorGridBuysChecked
    \/ MonitorGridCheckSell
    \/ MonitorGridReturn
    \/ CancelGrid

\* A fresh engine; the exchange answers in JSON, numbers as strings.
InitEngine ==
    /\ pc = "idle"
    /\ args = NoArgs
    /\ loc = [err |-> NoStr, log |-> <<>>]
    /\ calls = <<>>
    /\ exch = [orders |-> <<>>, strQty |-> TRUE]
    /\ ret = None

SpecEngine == InitEngine /\ [][NextEngine]_vars

----------------------------------------------------------------------------
(* Claims about the engine as a whole.                                     *)

\* The values operations return: None, an order dict, a pair of orders,
\* 'TP' / 'SL', a list, a grid dict, True / False.
ResultKinds == {"None", "order", "pair", "str", "list", "grid", "bool"}

\* Some exchange call of the operation raised.
SomeCallRaised == \E n \in 1..Len(calls) : calls[n].outcome \in {"rejected", "error"}

Finished(op) == args.op = op /\ pc \in {"done", "cancelled"}

C18_Witness_AbsentOrder ==
    /\ Finished("cancel_order")
    /\ calls[1].outcome = "rejected"
    /\ ret = Bool(FALSE)

----------------------------------------------------------------------------
(* Further claims about the primitive order executor.                      *)

\* C19: every price and quantity that reaches the exchange was validated in
\* the form supplied to the operation and rounded to the configured
\* precision only afterwards; no value is sent without having been
\* validated (the optional limit price of a take-profit order included).
C19_SentValuesWereValidatedThenRounded ==
    PlaceDone
    =>
    \A n \in 1..Len(calls) :
       LET c == calls[n]
       IN  c.call = "create"
           => /\ ValidateQuantity(args.quantity, NoneNum)
              /\ c.quantity = FormatQuantity(args.quantity)
              /\ c.price # NoneNum =>
                   (ValidatePrice(args.price) /\ c.price = FormatPrice(args.price))
              /\ c.stopPrice # NoneNum =>
                   (ValidatePrice(args.stop_price)
                      /\ c.stopPrice = FormatPrice(args.stop_price))

\* The first check that fails in the order symbol, side, price(s),
\* quantity, time-in-force; NoStr when none fails.  The optional limit price
\* of a take-profit order is left to C19.
FirstFailingCheck(a) ==
    IF ~ ValidateSymbol(a.symbol) THEN "Invalid symbol"
    ELSE IF ~ ValidateSide(a.side) THEN "Invalid side"
    ELSE IF a.op # "place_take_profit_order" /\ a.price # NoneNum /\ ~ ValidatePrice(a.price)
      THEN "Invalid price"
    ELSE IF a.stop_price # NoneNum /\ ~ ValidatePrice(a.stop_price)
      THEN "Invalid stop price"
    ELSE IF ~ ValidateQuantity(a.quantity,
                               IF a.op \in {"place_limit_order", "place_stop_limit_order"}
                                 THEN a.price ELSE NoneNum)
      THEN "Invalid quantity"
    ELSE IF a.time_in_force # NoStr /\ ~ ValidateTimeInForce(a.time_in_force)
      THEN "Invalid time in force"
    ELSE NoStr

\* C20: each place-* operation evaluates its checks in the order symbol,
\* side, price(s), quantity, time-in-force and stops at the first failure,
\* which is the one it reports; place_limit_order and
\* place_stop_limit_order include the time-in-force check, so an invalid
\* time-in-force never reaches the exchange.
C20_ChecksInFixedOrderIncludingTimeInForce ==
    PlaceDone
    =>
    /\ (loc.err \in ValidationReasons \/ FirstFailingCheck(args) # NoStr)
         => (loc.err = FirstFailingCheck(args) /\ calls = <<>>)
    /\ \A n \in 1..Len(calls) :
          calls[n].timeInForce # NoStr => ValidateTimeInForce(calls[n].timeInForce)

\* The create-order request of the operation was rejected by the exchange.
ExchangeRejected == PlaceDone /\ Len(calls) = 1 /\ calls[1].outcome = "rejected"

\* The request failed with another exception (transport, unexpected).
OtherException == PlaceDone /\ Len(calls) = 1 /\ calls[1].outcome = "error"

\* C21: for each of the five place-* operations, a request the exchange
\* rejects leaves a log record carrying the exchange's error code and
\* message (the failed API call), a record that no other exception leaves.
C21_RejectionLeavesItsOwnRecord ==
    /\ ExchangeRejected => \E n \in 1..Len(loc.log) : loc.log[n].record = "api_call"
    /\ OtherException => \A n \in 1..Len(loc.log) : loc.log[n].record # "api_call"

----------------------------------------------------------------------------
(* Specification of the validator: one call of one of its functions on an  *)
(* argument drawn from the sets below.                                     *)

SymbolPrefixes ==
    {<<>>, <<"B">>, <<"B", "T">>, <<"B", "T", "C">>, <<"b", "t", "c">>,
     <<"B", "T", "C", "-">>, <<"1">>, <<"E", "T", "H", "1">>, <<"I", "N">>}

SymbolSuffixes ==
    {<<>>, USDT, <<"u", "s", "d", "t">>, <<"U", "S", "D">>, USDT \o <<"\n">>,
     USDT \o <<"X">>, <<"V", "A", "L", "I", "D">>}

\* BTCUSDT, btcusdt, BTC, BTC-USDT, INVALID, USDT, 1USDT, ETH1USDT, ...
ValidatorSymbols == {p \o x : p \in SymbolPrefixes, x \in SymbolSuffixes}

\* -0.001, 0, 0.0001, 0.001, 0.0011, 0.004, 2, 2.0001 coins
ValidatorQuantities == {-10, 0, 1, 10, 11, 40, 20000, 20001}

\* none, 0, 0.004, 500, 4999, 5000, 49999.999, 50000 USDT
ValidatorPrices == {NoneNum, 0, 4, 500000, 4999000, 5000000, 49999999, 50000000}

\* A price with a fractional part is paired with small quantities only.
ValidatorQuantityCases ==
    {c \in ValidatorQuantities \X ValidatorPrices :
        c[2] = NoneNum \/ c[2] % PriceScale = 0 \/ c[1] <= 40}

Validation(r) == [kind |-> "validation", is_valid |-> r.is_valid, error |-> r.error]

InitValidator ==
    /\ pc = "idle"
    /\ args = NoArgs
    /\ loc = [err |-> NoStr, log |-> <<>>]
    /\ calls = <<>>
    /\ exch = [orders |-> <<>>, strQty |-> TRUE]
    /\ ret = None

DoValidateSymbol ==
    /\ pc = "idle"
    /\ \E symbol \in ValidatorSymbols :
         /\ args' = [NoArgs EXCEPT !.op = "validate_symbol", !.symbol = symbol]
         /\ ret' = Validation(ValidateSymbolResult(symbol))
    /\ pc' = "done"
    /\ UNCHANGED <<loc, calls, exch>>

DoValidateQuantity ==
    /\ pc = "idle"
    /\ \E c \in ValidatorQuantityCases :
         /\ args' = [NoArgs EXCEPT !.op = "validate_quantity", !.quantity = c[1],
                                   !.price = c[2]]
         /\ ret' = Validation(ValidateQuantityResult(c[1], c[2]))
    /\ pc' = "done"
    /\ UNCHANGED <<loc, calls, exch>>

NextValidator ==
    \/ DoValidateSymbol
    \/ DoValidateQuantity

SpecValidator == InitValidator /\ [][NextValidator]_vars

----------------------------------------------------------------------------
(* Claims about the validator.                                             *)

Validated(op) == pc = "done" /\ args.op = op

NoSideEffect == calls = <<>> /\ loc.log = <<>> /\ exch.orders = <<>>

\* C22: validate_symbol accepts a symbol if and only if it is non-empty,
\* made of the characters A-Z and 0-9 only, ends with USDT and has at least
\* 6 characters; it accepts BTCUSDT, rejects btcusdt, BTC, BTC-USDT and
\* INVALID, and has no side effect.
C22_ValidateSymbolAcceptsExactly ==
    Validated("validate_symbol")
    =>
    /\ ret.is_valid <=>
          /\ args.symbol # <<>>
          /\ \A i \in 1..Len(args.symbol) : args.symbol[i] \in UpperChars
          /\ EndsWith(args.symbol, USDT)
          /\ Len(args.symbol) >= 6
    /\ args.symbol = BTCUSDT => ret.is_valid
    /\ args.symbol \in {<<"b", "t", "c", "u", "s", "d", "t">>, <<"B", "T", "C">>,
                         <<"B", "T", "C", "-", "U", "S", "D", "T">>,
                         <<"I", "N", "V", "A", "L", "I", "D">>} => ~ ret.is_valid
    /\ NoSideEffect

C22_Witness == Validated("validate_symbol") /\ args.symbol = BTCUSDT /\ ret.is_valid

C22_Witness_Rejected ==
    /\ Validated("validate_symbol")
    /\ args.symbol = <<"B", "T", "C", "-", "U", "S", "D", "T">>
    /\ ~ ret.is_valid

C22_Witness_Newline ==
    /\ Validated("validate_symbol")
    /\ args.symbol = BTCUSDT \o <<"\n">>
    /\ ~ ret.is_valid

\* quantity * price lies in [lo, hi] USDT, computed on the whole product
\* (on whole prices the product is taken in USDT).
NotionalWithin(quantity, price, lo, hi) ==
    IF price % PriceScale = 0
      THEN /\ quantity * (price \div PriceScale) >= lo * QtyScale
           /\ quantity * (price \div PriceScale) <= hi * QtyScale
      ELSE /\ quantity * price >= lo * QtyScale * PriceScale
           /\ (quantity * price) \div (QtyScale * PriceScale) < hi

\* C23: validate_quantity(quantity, price) accepts if and only if
\* quantity > 0 and, when a price is supplied, min_order_size <=
\* quantity * price <= max_order_size, both bounds inclusive; without a
\* price quantity > 0 suffices.  (0.001, 50000) is accepted and a notional
\* of 0.5 is rejected.
C23_ValidateQuantityAcceptsExactly ==
    Validated("validate_quantity")
    =>
    /\ ret.is_valid <=>
          /\ args.quantity > 0
          /\ args.price # NoneNum =>
                NotionalWithin(args.quantity, args.price, MinOrderSize, MaxOrderSize)
    /\ (args.quantity = 10 /\ args.price = 50000000) => ret.is_valid
    /\ (args.quantity = 10 /\ args.price = 500000) => ~ ret.is_valid

\* the notional equals max_order_size and is accepted
C23_Witness ==
    /\ Validated("validate_quantity")
    /\ args.quantity = 20000 /\ args.price = 50000000
    /\ ret.is_valid

\* the notional equals min_order_size and is accepted
C23_Witness_AtMin ==
    /\ Validated("validate_quantity")
    /\ args.quantity = 10 /\ args.price = 5000000
    /\ ret.is_valid

C23_Witness_NoPrice ==
    /\ Validated("validate_quantity")
    /\ args.quantity = 1 /\ args.price = NoneNum
    /\ ret.is_valid

----------------------------------------------------------------------------
(* Further claims about the TWAP executor.                                 *)

\* The caller supplied a chunk count outside [2,100] or an interval outside
\* [1,3600] seconds.
TwapSuppliedOutOfRange ==
    \/ args.chunks # NoneNum /\ args.chunks \notin 2..100
    \/ args.interval_seconds # NoneNum /\ args.interval_seconds \notin 1..3600

\* C24: execute_twap_order places an order only when the chunk count
\* supplied by the caller is in [2,100] and the interval supplied is in
\* [1,3600] seconds; a request with an explicit chunk count or interval
\* outside those ranges, 0 included, returns no result and places no order.
C24_SuppliedTwapParametersOutOfRangePlaceNothing ==
    (args.op = "execute_twap_order" /\ TwapSuppliedOutOfRange)
    =>
    /\ \A n \in 1..Len(calls) : calls[n].call # "create"
    /\ TwapEnded => ret = None

----------------------------------------------------------------------------
(* Specification of get_twap_summary: one call on a list of order          *)
(* responses drawn from the sets below.                                    *)

MaxSummaryOrders == 2

\* 0, 0.001, 0.002 coins executed
SummaryQuantities == {0, 10, 20}

\* "0.00000", "1.99", "2.01", 0.0, 2.01, or no avgPrice in the response
SummaryPrices ==
    {[form |-> "str", value |-> 0], [form |-> "str", value |-> 1990],
     [form |-> "str", value |-> 2010], [form |-> "num", value |-> 0],
     [form |-> "num", value |-> 2010], [form |-> "absent", value |-> 0]}

SummaryOrders == [executedQty : SummaryQuantities, avgPrice : SummaryPrices]

SummaryOrderLists ==
    UNION {[1..n -> SummaryOrders] : n \in 0..MaxSummaryOrders}

InitSummary ==
    /\ pc = "idle"
    /\ args \in [op : {"get_twap_summary"}, orders : SummaryOrderLists]
    /\ loc = [err |-> NoStr, log |-> <<>>]
    /\ calls = <<>>
    /\ exch = [orders |-> <<>>, strQty |-> TRUE]
    /\ ret = None

DoGetTwapSummary ==
    /\ pc = "idle"
    /\ pc' = "done"
    /\ ret' = TwapSummary(args.orders)
    /\ UNCHANGED <<args, loc, calls, exch>>

NextSummary == DoGetTwapSummary

SpecSummary == InitSummary /\ [][NextSummary]_vars

Summarized == pc = "done" /\ args.op = "get_twap_summary"

SameFrac(a, b) == a.num * b.den = b.num * a.den

\* What the summary reports apart from the least and greatest price.
SummaryTotals ==
    LET qty   == SumSeq([k \in 1..Len(args.orders) |-> args.orders[k].executedQty])
        value == SumSeq([k \in 1..Len(args.orders) |->
                           args.orders[k].executedQty * AvgPrice(args.orders[k])])
    IN  /\ ret.total_quantity = qty
        /\ IF qty = 0 THEN ret.average_price.num = 0
                      ELSE SameFrac(ret.average_price, Frac(value, qty))
        /\ SameFrac(ret.total_value,
                    Frac(ret.total_quantity * ret.average_price.num,
                         ret.average_price.den))

\* C25 as stated: on a non-empty list get_twap_summary reports the sum of
\* the executed quantities, the volume-weighted average price (0 when the
\* summed quantity is 0), the least and the greatest per-order average
\* price, and total_value = total_quantity * average_price; on an empty
\* list it returns an empty summary.
C25_SummaryOverAllOrders ==
    Summarized
    =>
    IF args.orders = <<>> THEN ret.kind = "empty"
    ELSE /\ ret.kind = "summary"
         /\ SummaryTotals
         /\ \A k \in 1..Len(args.orders) :
               ret.min_price <= AvgPrice(args.orders[k])
                 /\ AvgPrice(args.orders[k]) <= ret.max_price
         /\ \E k \in 1..Len(args.orders) : ret.min_price = AvgPrice(args.orders[k])
         /\ \E k \in 1..Len(args.orders) : ret.max_price = AvgPrice(args.orders[k])

\* C25 amended: the least and the greatest price are taken over the orders
\* whose avgPrice entry is present and true in Python's sense (a string, or
\* a non-zero number), and are 0 when there is no such order.
C25_SummaryOverPricedOrders ==
    Summarized
    =>
    IF args.orders = <<>> THEN ret.kind = "empty"
    ELSE LET priced == {k \in 1..Len(args.orders) : AvgPriceTruthy(args.orders[k])}
         IN  /\ ret.kind = "summary"
             /\ SummaryTotals
             /\ \A k \in priced :
                   ret.min_price <= AvgPrice(args.orders[k])
                     /\ AvgPrice(args.orders[k]) <= ret.max_price
             /\ IF priced = {} THEN ret.min_price = 0 /\ ret.max_price = 0
                 ELSE /\ \E k \in priced : ret.min_price = AvgPrice(args.orders[k])
                      /\ \E k \in priced : ret.max_price = AvgPrice(args.orders[k])

\* two fills at different prices and quantities
C25_Witness ==
    /\ Summarized
    /\ Len(args.orders) = 2
    /\ args.orders[1].executedQty = 10 /\ args.orders[2].executedQty = 20
    /\ AvgPrice(args.orders[1]) = 1990 /\ AvgPrice(args.orders[2]) = 2010
    /\ ret.min_price = 1990 /\ ret.max_price = 2010

\* an unfilled order reported with the number 0 beside a fill
C25_Witness_Unpriced ==
    /\ Summarized
    /\ Len(args.orders) = 2
    /\ args.orders[1].avgPrice = [form |-> "num", value |-> 0]
    /\ AvgPrice(args.orders[2]) = 2010
    /\ ret.min_price = 2010

C25_Witness_Empty == Summarized /\ args.orders = <<>> /\ ret.kind = "empty"

----------------------------------------------------------------------------
(* Two strategy invocations on the same executor objects, their steps      *)
(* interleaved.  Beside each invocation runs a copy that is alone on its   *)
(* executor and is given the same exchange responses.  Every variable but  *)
(* exch maps an invocation to [together |-> ..., alone |-> ...]; exch is   *)
(* the one exchange account.                                               *)

Invocations == {"first", "second"}

Runs(x) == [w \in Invocations |-> [together |-> x, alone |-> x]]

\* How the exchange treats the next request it receives.
InterleavedBehaviours == {"rejected", "new", "filled"}

\* Stop, take-profit and maker-only orders rest when they are accepted.
RestingOutcome(b, req) == OutcomeOf(IF b = "filled" THEN "new" ELSE b, req)

\* place_oco_order up to the first exchange call
OcoStart(a, ex) ==
    TwapState(IF OcoValidation(a) = NoStr THEN "tp" ELSE "done",
              [NoOcoLocals EXCEPT !.err = OcoValidation(a)], <<>>, ex, None)

\* The next step of place_oco_order under behaviour b
OcoStep(st, a, b) ==
    CASE st.pc = "tp" ->
           LET r == OcoTakeProfitLeg(st.exch, a,
                        RestingOutcome(b, TakeProfitRequest(a.symbol, a.side, a.quantity,
                                                            a.take_profit_price, NoneNum,
                                                            TRUE)))
           IN  [st EXCEPT !.calls = @ \o r.calls, !.exch = r.exch,
                          !.loc = [@ EXCEPT !.tp_order = r.ret,
                                            !.err = IF Truthy(r.ret) THEN NoStr
                                                    ELSE "Failed to place take profit order"],
                          !.pc = IF Truthy(r.ret) THEN "sl" ELSE "done"]
      [] st.pc = "sl" ->
           LET r == OcoStopLossLeg(st.exch, a,
                        RestingOutcome(b, StopMarketRequest(a.symbol, a.side, a.quantity,
                                                            a.stop_loss_price, TRUE)))
           IN  [st EXCEPT !.calls = @ \o r.calls, !.exch = r.exch,
                          !.loc = [@ EXCEPT !.sl_order = r.ret,
                                            !.err = IF Truthy(r.ret) THEN NoStr
                                                    ELSE "Failed to place stop loss order"],
                          !.pc = IF Truthy(r.ret) THEN "done" ELSE "cancel",
                          !.ret = IF Truthy(r.ret)
                                    THEN Pair(st.loc.tp_order.order, r.ret.order)
                                    ELSE None]
      [] st.pc = "cancel" ->
           LET r == CancelOrder(st.exch, a.symbol, st.loc.tp_order.order.orderId,
                                IF b = "rejected" THEN b ELSE "ok")
           IN  [st EXCEPT !.calls = @ \o r.calls, !.exch = r.exch, !.pc = "done"]
      [] OTHER -> st

\* create_grid_orders up to the ticker request
GridStart(a, ex) ==
    LET n == OrDefault(a.grid_levels, DefaultGridLevels)
        e == GridValidation(a, n)
    IN  TwapState(IF e = NoStr THEN "ticker" ELSE "done",
                  IF e # NoStr
                    THEN [NoGridLocals EXCEPT !.err = e, !.grid_levels = n]
                    ELSE [NoGridLocals EXCEPT
                            !.grid_levels = n,
                            !.qty_per_level = RoundDivHalfEven(a.total_quantity, n, QtyUnit),
                            !.grid_prices = GridPrices(a.lower_price, a.upper_price, n)],
                  <<>>, ex, None)

\* The price futures_symbol_ticker reports when it answers: 47 USDT
InterleavedTickerPrice == 47000

\* The next step of create_grid_orders under behaviour b
GridStep(st, a, b) ==
    CASE st.pc = "ticker" ->
           LET t == IF b = "rejected" THEN NoneNum ELSE InterleavedTickerPrice
           IN  [st EXCEPT !.calls = Append(@, Ticker(a.symbol, t)),
                          !.pc = IF t = NoneNum THEN "done" ELSE "levels",
                          !.loc = IF t = NoneNum THEN [@ EXCEPT !.err = "ticker"]
                                  ELSE [@ EXCEPT !.current_price = t]]
      [] st.pc = "levels" /\ st.loc.k = Len(st.loc.grid_prices) ->
           [st EXCEPT !.pc = "done", !.ret = GridConfig(a, st.loc)]
      [] st.pc = "levels" /\ st.loc.k < Len(st.loc.grid_prices) ->
           LET price == st.loc.grid_prices[st.loc.k + 1]
               side  == GridSide(a.mode, price, st.loc.current_price)
               req   == LimitRequest(a.symbol, side, st.loc.qty_per_level, price,
                                     "GTC", FALSE, TRUE)
               r     == PlaceLimitOrder(st.exch, a.symbol, side, st.loc.qty_per_level,
                                        price, "GTC", FALSE, TRUE, RestingOutcome(b, req))
               placed == IF Truthy(r.ret) THEN <<GridOrder(r.ret.order, req)>> ELSE <<>>
           IN  IF side = NoStr
                 THEN [st EXCEPT !.loc.k = @ + 1]
                 ELSE [st EXCEPT
                         !.calls = @ \o r.calls, !.exch = r.exch,
                         !.loc = [@ EXCEPT
                                    !.k = @ + 1,
                                    !.attempts = Append(@, [side |-> side, price |-> price,
                                                            quantity |-> st.loc.qty_per_level]),
                                    !.buy_orders = IF side = "BUY" THEN @ \o placed ELSE @,
                                    !.sell_orders = IF side = "SELL" THEN @ \o placed ELSE @]]
      [] OTHER -> st

\* The state in which the strategy named by a.op starts on exchange ex
StrategyStart(a, ex) ==
    CASE a.op = "place_oco_order" -> OcoStart(a, ex)
      [] a.op = "create_grid_orders" -> GridStart(a, ex)
      [] OTHER -> TwapStart(a, TwapValidation(a, OrDefault(a.chunks, DefaultChunks),
                                              OrDefault(a.interval_seconds, DefaultInterval)),
                            ex)

StrategyStep(st, a, b) ==
    CASE a.op = "place_oco_order" -> OcoStep(st, a, b)
      [] a.op = "create_grid_orders" -> GridStep(st, a, b)
      [] OTHER -> TwapSyncStep(st, a, b)

\* The invocations that are interleaved.
InterleavedCalls ==
    {[NoTwapArgs EXCEPT !.op = "execute_twap_order", !.symbol = BTCUSDT, !.side = "BUY",
                        !.total_quantity = 30, !.chunks = 2, !.interval_seconds = 1],
     [NoTwapArgs EXCEPT !.op = "execute_twap_order", !.symbol = BTCUSDT, !.side = "Sell",
                        !.total_quantity = 100, !.chunks = 3, !.interval_seconds = 1],
     [NoOcoArgs EXCEPT !.op = "place_oco_order", !.symbol = BTCUSDT, !.side = "Sell",
                       !.quantity = 10, !.take_profit_price = 52000000,
                       !.stop_loss_price = 48000000],
     [op |-> "create_grid_orders", symbol |-> BTCUSDT, lower_price |-> 45000,
      upper_price |-> 55000, total_quantity |-> 10000, grid_levels |-> 3,
      mode |-> "neutral"],
     [op |-> "create_grid_orders", symbol |-> BTCUSDT, lower_price |-> 45000,
      upper_price |-> 55000, total_quantity |-> 10000, grid_levels |-> 3,
      mode |-> "long"]}

InitInterleaved ==
    /\ pc = Runs("idle")
    /\ args = [w \in Invocations |-> NoArgs]
    /\ loc = Runs([err |-> NoStr])
    /\ calls = Runs(<<>>)
    /\ exch \in {[orders |-> <<>>, strQty |-> q] : q \in BOOLEAN}
    /\ ret = Runs(None)

\* Both strategies are invoked; neither has called the exchange yet.
InterleavedInvoke ==
    /\ pc = Runs("idle")
    /\ \E a \in [Invocations -> InterleavedCalls] :
         LET st == [w \in Invocations |-> StrategyStart(a[w], exch)]
         IN  /\ args' = a
             /\ pc' = [w \in Invocations |-> [together |-> st[w].pc, alone |-> st[w].pc]]
             /\ loc' = [w \in Invocations |-> [together |-> st[w].loc, alone |-> st[w].loc]]
             /\ calls' = Runs(<<>>)
             /\ ret' = Runs(None)
    /\ UNCHANGED exch

Together(w) ==
    TwapState(pc[w].together, loc[w].together, calls[w].together, exch, ret[w].together)

Alone(w) == TwapState(pc[w].alone, loc[w].alone, calls[w].alone, exch, ret[w].alone)

Ongoing(w) == pc[w].together \notin {"idle", "done"} \/ pc[w].alone \notin {"idle", "done"}

\* A variant of InterleavedStep in which execute_twap_order keeps its plan
\* (chunk index, sizes, executed orders) in attributes of the executor, so
\* that two TWAP invocations work on the same plan.
InterleavedStepPlanOnExecutor ==
    \E w \in Invocations, b \in InterleavedBehaviours :
       LET t == StrategyStep(Together(w), args[w], b)
           s == StrategyStep(Alone(w), args[w], b)
           shares(v) == v = w \/ (args[v].op = "execute_twap_order"
                                    /\ args[w].op = "execute_twap_order")
       IN  /\ Ongoing(w)
           /\ pc' = [pc EXCEPT ![w] = [together |-> t.pc, alone |-> s.pc]]
           /\ loc' = [v \in Invocations |->
                        [together |-> IF shares(v) THEN t.loc ELSE loc[v].together,
                         alone |-> IF v = w THEN s.loc ELSE loc[v].alone]]
           /\ calls' = [calls EXCEPT ![w] = [together |-> t.calls, alone |-> s.calls]]
           /\ ret' = [ret EXCEPT ![w] = [together |-> t.ret, alone |-> s.ret]]
           /\ exch' = t.exch
           /\ UNCHANGED args

\* One of the invocations takes its next step; its copy takes the same step
\* with the same response.
InterleavedStep ==
    \E w \in Invocations, b \in InterleavedBehaviours :
       LET t == StrategyStep(Together(w), args[w], b)
           s == StrategyStep(Alone(w), args[w], b)
       IN  /\ Ongoing(w)
           /\ pc' = [pc EXCEPT ![w] = [together |-> t.pc, alone |-> s.pc]]
           /\ loc' = [loc EXCEPT ![w] = [together |-> t.loc, alone |-> s.loc]]
           /\ calls' = [calls EXCEPT ![w] = [together |-> t.calls, alone |-> s.calls]]
           /\ ret' = [ret EXCEPT ![w] = [together |-> t.ret, alone |-> s.ret]]
           /\ exch' = t.exch
           /\ UNCHANGED args

NextInterleaved ==
    \/ InterleavedInvoke
    \/ InterleavedStep

SpecInterleaved == InitInterleaved /\ [][NextInterleaved]_vars

C26_Witness_OcoAmidGrid ==
    /\ \A w \in Invocations : pc[w].together = "done"
    /\ \E w, v \in Invocations :
          /\ args[w].op = "place_oco_order" /\ ret[w].together.kind = "pair"
          /\ args[v].op = "create_grid_orders" /\ ret[v].together.kind = "grid"
          /\ Len(ret[v].together.sell_orders) = 2
          /\ ret[v].together.sell_orders[1].orderId < ret[w].together.tp.orderId
          /\ ret[w].together.sl.orderId < ret[v].together.sell_orders[2].orderId

----------------------------------------------------------------------------
(* Further claims about the grid builder.                                  *)

GridReturned == args.op = "create_grid_orders" /\ pc = "done" /\ ret.kind = "grid"

\* The levels for which the mode places an order, in grid order.
EligibleLevels ==
    SelectSeq(loc.grid_prices,
              LAMBDA p : GridSide(args.mode, p, loc.current_price) # NoStr)

\* The ids of the orders the exchange accepted on the given side, in call order.
AcceptedIds(side) ==
    LET ok == SelectSeq(calls, LAMBDA c : c.call = "create" /\ c.outcome = "ok"
                                           /\ c.side = side)
    IN  [n \in 1..Len(ok) |-> ok[n].resp.orderId]

OrderIdsOf(orders) == [n \in 1..Len(orders) |-> orders[n].orderId]

\* C27: in create_grid_orders a level whose placement returns no result is
\* skipped and the remaining eligible levels are still attempted; each
\* eligible level is attempted exactly once, in ascending price order; the
\* result lists exactly the successful responses, and total_orders =
\* len(buy_orders) + len(sell_orders) <= levels.
C27_FailedLevelSkippedOthersAttempted ==
    GridReturned
    =>
    /\ Len(loc.attempts) = Len(EligibleLevels)
    /\ \A n \in 1..Len(EligibleLevels) : loc.attempts[n].price = EligibleLevels[n]
    /\ \A n \in 1..(Len(loc.attempts) - 1) :
          loc.attempts[n].price <= loc.attempts[n + 1].price
    /\ OrderIdsOf(ret.buy_orders) = AcceptedIds("BUY")
    /\ OrderIdsOf(ret.sell_orders) = AcceptedIds("SELL")
    /\ ret.total_orders = Len(ret.buy_orders) + Len(ret.sell_orders)
    /\ ret.total_orders <= ret.grid_levels

\* a level was refused by the exchange and a later level was placed
C27_Witness ==
    /\ GridReturned
    /\ \E i, j \in 1..Len(calls) :
          /\ i < j
          /\ calls[i].call = "create" /\ calls[i].outcome = "rejected"
          /\ calls[j].call = "create" /\ calls[j].outcome = "ok"
    /\ ret.total_orders < Len(loc.attempts)

----------------------------------------------------------------------------
(* A further claim about the primitive order executor.                     *)

\* C28: every create-order call issued by a place-* operation carries a
\* quantity strictly greater than 0 after formatting; a positive quantity
\* that rounds to 0 at the quantity precision is never sent.
C28_SentQuantityIsPositive ==
    PlaceDone
    =>
    \A n \in 1..Len(calls) : calls[n].call = "create" => calls[n].quantity > 0

----------------------------------------------------------------------------
(* A claim about repeated monitoring of one grid.                          *)

\* The refill orders the exchange accepted, over all calls of
\* monitor_and_refill_grid that have returned.
PlacedRefills == SelectSeq(loc.history, LAMBDA r : r.placed)

\* C29: across any number of repeated calls of monitor_and_refill_grid on
\* the same grid, each filled grid order gives rise to at most one refill
\* order; a fill refilled by an earlier call is not refilled again.
C29_EachFillRefilledAtMostOnce ==
    GridMonitored
    =>
    \A i, j \in 1..Len(PlacedRefills) :
       i # j => PlacedRefills[i].orderId # PlacedRefills[j].orderId

----------------------------------------------------------------------------
(* OCOOrderExecutor.place_oco_with_entry: the entry order, then the call   *)
(* of place_oco_order for the exit pair.  While place_oco_order runs, args *)
(* holds its arguments and loc.caller those of place_oco_with_entry.  With *)
(* a string symbol and side and numeric quantities and prices no exception *)
(* leaves either executor, so the except clause of lines 193-195 is never  *)
(* entered.                                                                *)

\* None (a market entry), 0, 50000 USDT
EntryPrices == {NoneNum, 0, 50000000}

NoEntryArgs ==
    [op |-> NoStr, symbol |-> NoSymbol, entry_side |-> NoStr, quantity |-> NoneNum,
     entry_price |-> NoneNum, take_profit_price |-> NoneNum,
     stop_loss_price |-> NoneNum]

NoEntryLocals ==
    [err |-> NoStr, tp_order |-> None, sl_order |-> None, caller |-> NoEntryArgs,
     entry_order |-> None]

\* The result when the exit pair could not be placed
EntryOnly(entry_order) ==
    [kind |-> "entry", entry_order |-> entry_order, oco_orders |-> None]

\* The result when all three orders were placed
EntryWithExits(entry_order, pair) ==
    [kind |-> "entry", entry_order |-> entry_order, take_profit_order |-> pair.tp,
     stop_loss_order |-> pair.sl]

\* A variant that exits on the entry's own side.
ExitSideSame(entry_side) == Upper(entry_side)

\* "Determine exit side (opposite of entry)"
ExitSide(entry_side) == IF Upper(entry_side) = "BUY" THEN "SELL" ELSE "BUY"

\* The arguments place_oco_with_entry passes to place_oco_order
ExitArgs(a) ==
    [NoOcoArgs EXCEPT !.op = "place_oco_order", !.symbol = a.symbol,
                      !.side = ExitSide(a.entry_side), !.quantity = a.quantity,
                      !.take_profit_price = a.take_profit_price,
                      !.stop_loss_price = a.stop_loss_price]

\* The request the entry order makes
EntryRequest(a) ==
    IF a.entry_price = NoneNum
      THEN MarketRequest(a.symbol, a.entry_side, a.quantity, FALSE)
      ELSE LimitRequest(a.symbol, a.entry_side, a.quantity, a.entry_price, "GTC",
                        FALSE, FALSE)

\* "Place entry order"
EntryLeg(ex, a, o) ==
    IF a.entry_price = NoneNum
      THEN PlaceMarketOrder(ex, a.symbol, a.entry_side, a.quantity, FALSE, o)
      ELSE PlaceLimitOrder(ex, a.symbol, a.entry_side, a.quantity, a.entry_price, "GTC",
                           FALSE, FALSE, o)

InitEntry ==
    /\ pc = "idle"
    /\ args = NoEntryArgs
    /\ loc = NoEntryLocals
    /\ calls = <<>>
    /\ exch \in {[orders |-> <<>>, strQty |-> b] : b \in BOOLEAN}
    /\ ret = None

\* place_oco_with_entry is called
EntryInvoke ==
    /\ pc = "idle"
    /\ \E symbol \in Symbols, entry_side \in Sides, quantity \in OcoQuantities,
          entry_price \in EntryPrices, take_profit_price \in OcoPrices,
          stop_loss_price \in OcoPrices :
         args' = [NoEntryArgs EXCEPT !.op = "place_oco_with_entry", !.symbol = symbol,
                                     !.entry_side = entry_side, !.quantity = quantity,
                                     !.entry_price = entry_price,
                                     !.take_profit_price = take_profit_price,
                                     !.stop_loss_price = stop_loss_price]
    /\ pc' = "entry"
    /\ loc' = NoEntryLocals
    /\ calls' = <<>>
    /\ ret' = None
    /\ UNCHANGED exch

\* The entry order; when it was placed, place_oco_order is called and runs
\* up to its first exchange call.
EntryOrder ==
    /\ pc = "entry"
    /\ \E o \in CreateOutcomes(EntryRequest(args)) :
         LET r == EntryLeg(exch, args, o)
             a == ExitArgs(args)
         IN  /\ calls' = r.calls
             /\ exch' = r.exch
             /\ IF Truthy(r.ret)
                  THEN /\ args' = a
                       /\ loc' = [NoEntryLocals EXCEPT !.caller = args,
                                                        !.entry_order = r.ret,
                                                        !.err = OcoValidation(a)]
                       /\ pc' = IF OcoValidation(a) = NoStr THEN "tp" ELSE "done"
                  ELSE /\ args' = args
                       /\ loc' = [NoEntryLocals EXCEPT
                                    !.err = "Failed to place entry order"]
                       /\ pc' = "returned"
    /\ ret' = None

\* place_oco_order has returned: the result of place_oco_with_entry
EntryReturn ==
    /\ pc = "done"
    /\ args.op = "place_oco_order"
    /\ pc' = "returned"
    /\ args' = loc.caller
    /\ ret' = IF Truthy(ret) THEN EntryWithExits(loc.entry_order.order, ret)
                             ELSE EntryOnly(loc.entry_order.order)
    /\ UNCHANGED <<loc, calls, exch>>

NextEntry ==
    \/ EntryInvoke
    \/ EntryOrder
    \/ OcoTakeProfit
    \/ OcoStopLoss
    \/ OcoCancel
    \/ ExchangeFill
    \/ EntryReturn

SpecEntry == InitEntry /\ [][NextEntry]_vars

----------------------------------------------------------------------------
(* A claim about place_oco_with_entry.                                     *)

EntryReturned == pc = "returned"

\* The arguments of the running call of place_oco_with_entry
EntryArgs == IF args.op = "place_oco_order" THEN loc.caller ELSE args

IsEntryCall(c) == c.call = "create" /\ c.type \in {"MARKET", "LIMIT"}

IsExitCall(c) == c.call = "create" /\ c.type \in {"TAKE_PROFIT_MARKET", "STOP_MARKET"}

\* The entry order was placed: the first call made it and the exchange
\* accepted it.
EntryPlaced == calls # <<>> /\ IsEntryCall(calls[1]) /\ calls[1].outcome = "ok"

\* Both exit legs were accepted.
ExitPairPlaced ==
    /\ \E j \in 1..Len(calls) :
         calls[j].type = "TAKE_PROFIT_MARKET" /\ calls[j].outcome = "ok"
    /\ \E j \in 1..Len(calls) :
         calls[j].type = "STOP_MARKET" /\ calls[j].outcome = "ok"

\* C30: place_oco_with_entry places the exit legs only after the entry
\* order placement succeeded, and with the side opposite to the entry side;
\* if the entry placement fails, no exit leg is placed and the call returns
\* None; if the exit pair fails, the entry order is not cancelled and the
\* result carries the entry order with oco_orders set to None.
C30_ExitsFollowEntryOnOppositeSide ==
    /\ \A j \in 1..Len(calls) :
         IsExitCall(calls[j])
         => /\ j > 1
            /\ EntryPlaced
            /\ calls[1].side = Upper(EntryArgs.entry_side)
            /\ calls[1].side \in {"BUY", "SELL"}
            /\ calls[j].side \in {"BUY", "SELL"} \ {calls[1].side}
    /\ (EntryReturned /\ ~ EntryPlaced)
       => /\ \A j \in 1..Len(calls) : ~ IsExitCall(calls[j])
          /\ ret = None
    /\ (EntryReturned /\ EntryPlaced /\ ~ ExitPairPlaced)
       => /\ \A j \in 1..Len(calls) :
               calls[j].call = "cancel" => calls[j].orderId # calls[1].resp.orderId
          /\ ret = [kind |-> "entry", entry_order |-> calls[1].resp, oco_orders |-> None]

\* The entry was placed, the stop-loss leg failed, and the call has
\* returned the entry alone.
C30_Witness ==
    /\ EntryReturned
    /\ EntryPlaced
    /\ Len(calls) = 4
    /\ calls[2].type = "TAKE_PROFIT_MARKET" /\ calls[2].outcome = "ok"
    /\ calls[3].type = "STOP_MARKET" /\ calls[3].outcome = "rejected"
    /\ calls[4].call = "cancel"
    /\ ret = EntryOnly(calls[1].resp)

\* A market entry that the exchange rejected: nothing else was sent.
C30_Witness_EntryFailed ==
    /\ EntryReturned
    /\ Len(calls) = 1
    /\ calls[1].type = "MARKET" /\ calls[1].outcome = "rejected"
    /\ ret = None

\* All three orders were placed, the exits selling after a buy.
C30_Witness_AllPlaced ==
    /\ EntryReturned
    /\ EntryPlaced /\ ExitPairPlaced
    /\ calls[1].side = "BUY" /\ calls[2].side = "SELL" /\ calls[3].side = "SELL"
    /\ ret.kind = "entry" /\ ret.entry_order = calls[1].resp

====
